---- MODULE Spec2Model ----
(***************************************************************************)
(* one-shell-history (osh): the binary event log (.osh), its ordered       *)
(* insert, its reverse scan, the k-way merge reader and the archive cache, *)
(* modelled from src/src/osh.py.                                           *)
(*                                                                         *)
(* A file is a sequence of cells.  A cell stands for one byte; the bytes   *)
(* of a size word are digits in base ByteBase (256 in the program), so the *)
(* two-byte size word holds 0 .. ByteBase^2 - 1 and the program's 2**16 is *)
(* ByteBase^2 here.                                                        *)
(***************************************************************************)
EXTENDS Integers, Sequences, FiniteSets, Bags, TLC

\* ---------------------------------------------------------------- bounds
ByteBase == 3
MaxTs == 3
MaxCmdLen == 1
MaxOps == 3
MaxWriteLen == 2
MaxSourceLen == 2
MaxClock == 1
MaxArchiveTs == 2
MaxChanges == 1
MaxStreamLen == 3
MaxConverts == 2
MaxTextLen == 4
DurationParts == 4
MaxUnits == 3
MaxRuns == 1
MaxFileLen == 4
MaxEntryCmdLen == 2
MaxEntries == 2

\* ------------------------------------------------------- program constants
SizeWordLen == 2

\* file      the log file: whether it exists, and its bytes
\* lockSh    the processes that hold the shared advisory lock of the file
\* lockEx    the processes that hold the exclusive advisory lock (at most one)
\* proc      per process: its position in the running operation and its locals
\* committed history: the contents of the file at the start and at every
\*           normal return of an insert or a write
\* stored    history: the bag of events whose insert or write returned normally
\* merge     the k-way merge reader: its sources, its heap and its output
\* base      the base directory: the archive sources, the archive cache
\*           archived.osh, the local log, the clock of the file system, and
\*           what the last search did
\* app       one invocation of a command of the program that reads events
\*           and prints or writes them: its arguments, the events it was
\*           given and what it produced
VARIABLES file, lockSh, lockEx, proc, committed, stored, merge, base, app

procVars == <<file, lockSh, lockEx, proc, committed, stored>>

vars == <<file, lockSh, lockEx, proc, committed, stored, merge, base, app>>

Procs == {"p1", "p2"}

\* ------------------------------------------------------------ generic help
RECURSIVE Zeros(_)
Zeros(n) == IF n <= 0 THEN <<>> ELSE <<0>> \o Zeros(n - 1)

RECURSIVE Power(_, _)
Power(b, n) == IF n = 0 THEN 1 ELSE b * Power(b, n - 1)

Reverse(s) == [i \in 1..Len(s) |-> s[Len(s) + 1 - i]]

SeqsUpTo(S, n) == UNION {[1..k -> S] : k \in 0..n}

\* python slice s[a:b] of a bytes-like object: negative indices count from
\* the end, both ends are clamped to 0..len
PyIndex(i, n) == IF i < 0 THEN (IF i + n < 0 THEN 0 ELSE i + n)
                 ELSE (IF i > n THEN n ELSE i)

PySlice(s, a, b) ==
    LET lo == PyIndex(a, Len(s))
        hi == PyIndex(b, Len(s))
    IN IF lo >= hi THEN <<>> ELSE SubSeq(s, lo + 1, hi)

\* ------------------------------------------------------------------ codec
Timestamps == 1..MaxTs
Chars == {11}
Commands == SeqsUpTo(Chars, MaxCmdLen)

\* the event value: the ordering key and the command (the text that makes
\* the payload longer or shorter)
Event(ts, cmd) == [timestamp |-> ts, command |-> cmd]

Events == {Event(ts, cmd) : ts \in Timestamps, cmd \in Commands}

\* encoder.encode(event): the payload, one cell for the timestamp followed
\* by the cells of the command
Encode(e) == <<e.timestamp>> \o e.command

\* event_decoder.decode(bytes) raises unless the bytes are a payload
CanDecode(b) ==
    /\ Len(b) >= 1
    /\ b[1] \in Nat \ {0}
    /\ b[1] < 11
    /\ \A i \in 2..Len(b) : b[i] \in Chars

Decode(b) == Event(b[1], SubSeq(b, 2, Len(b)))

\* 2**16, the bound of the size checks
SizeCheckBound == Power(ByteBase, SizeWordLen)

\* size.to_bytes(length=2, byteorder="big", signed=False) raises
\* OverflowError unless 0 <= size < 2**16
CanToBytes(size) == size >= 0 /\ size < Power(ByteBase, SizeWordLen)

RECURSIVE ToBytesN(_, _)
ToBytesN(size, n) ==
    IF n = 0 THEN <<>>
    ELSE ToBytesN(size \div ByteBase, n - 1) \o <<size % ByteBase>>

ToBytes(size) == ToBytesN(size, SizeWordLen)

\* int.from_bytes(b, byteorder="big", signed=False)
RECURSIVE FromBytes(_)
FromBytes(b) ==
    IF Len(b) = 0 THEN 0
    ELSE FromBytes(SubSeq(b, 1, Len(b) - 1)) * ByteBase + b[Len(b)]

\* append_osh_event: what the call writes and whether it raises
AppendDrops(e) == Len(Encode(e)) > SizeCheckBound

AppendRaises(e) == ~AppendDrops(e) /\ ~CanToBytes(Len(Encode(e)))

AppendBytes(e) ==
    IF AppendDrops(e) THEN <<>>
    ELSE Encode(e) \o ToBytes(Len(Encode(e)))

\* the events of the model: those that fit a frame, and the oversized ones
FitEvents == {e \in Events : Len(Encode(e)) < SizeCheckBound}

LongCommand(n) == [i \in 1..n |-> 11]

OversizedEvents ==
    {Event(ts, LongCommand(n)) :
        ts \in Timestamps, n \in {SizeCheckBound - 1, SizeCheckBound}}

\* ------------------------------------------------------- the .osh file
NoFile == [exists |-> FALSE, data |-> <<>>]

EmptyFile == [exists |-> TRUE, data |-> <<>>]

\* write_osh_events without interference: the frames of the events that are
\* not dropped, oldest first
RECURSIVE FramesOf(_)
FramesOf(es) ==
    IF es = <<>> THEN <<>> ELSE AppendBytes(Head(es)) \o FramesOf(Tail(es))

\* file.write(bytes) at the offset of an open file: bytes past the end of
\* the file extend it, a gap up to the offset reads as zeros
WriteAt(data, pos, bytes) ==
    LET padded == IF Len(data) < pos THEN data \o Zeros(pos - Len(data)) ELSE data
    IN SubSeq(padded, 1, pos) \o bytes
         \o SubSeq(padded, pos + Len(bytes) + 1, Len(padded))

\* mm.resize(n): the file is cut or zero-filled to n bytes
Resize(data, n) ==
    IF Len(data) >= n THEN SubSeq(data, 1, n) ELSE data \o Zeros(n - Len(data))

\* mm.move(dest, src, count), an overlapping memmove inside the mapping
Move(data, dest, src, count) ==
    [i \in 1..Len(data) |->
        IF i > dest /\ i <= dest + count THEN data[src + (i - dest)] ELSE data[i]]

\* one turn of the loop of insert_osh_event at offset at: the size word
\* before at, the payload before it, and whether the payload decodes
ScanFrame(mm, at) ==
    LET size == FromBytes(PySlice(mm, at - 2, at))
        payload == PySlice(mm, at - 2 - size, at - 2)
    IN [ok |-> CanDecode(payload), size |-> size, payload |-> payload]

\* a scan that stops at the last frame whatever its timestamp: a plain append
ScanStopsAlways(entry, event) == TRUE

\* a scan that also passes the frames of the same timestamp
ScanStopsStrict(entry, event) == entry.timestamp < event.timestamp

\* entry.timestamp <= event.timestamp: the scan stops at this entry
ScanStops(entry, event) == entry.timestamp <= event.timestamp

\* the loop of insert_osh_event: the insertion offset, or a decode error.
\* The frame at insert_at and the offset of the next turn are bound as
\* values (fr, next), so that a turn is evaluated once also where the
\* operator is evaluated inside ENABLED.
RECURSIVE ScanInsertAt(_, _, _)
ScanInsertAt(mm, event, insert_at) ==
    IF insert_at > 0
    THEN CHOOSE r \in
            {IF ~fr.ok THEN [ok |-> FALSE, at |-> insert_at]
             ELSE IF ScanStops(Decode(fr.payload), event)
                  THEN [ok |-> TRUE, at |-> insert_at]
                  ELSE CHOOSE rest \in {ScanInsertAt(mm, event, next) :
                                           next \in {insert_at - 2 - fr.size}} : TRUE :
                fr \in {ScanFrame(mm, insert_at)}} : TRUE
    ELSE [ok |-> TRUE, at |-> insert_at]

\* one turn of the loop of read_osh_events at offset at
ReadFrame(mm, at) ==
    LET size == FromBytes(PySlice(mm, at, at + 2))
        payload == PySlice(mm, at - size, at)
    IN [ok |-> CanDecode(payload), size |-> size, payload |-> payload]

\* read_osh_events on a mapping that nobody changes: the events yielded,
\* newest first, and whether the scan ended without a decode error
RECURSIVE ReadFrom(_, _)
ReadFrom(mm, at) ==
    IF at > 0
    THEN LET fr == ReadFrame(mm, at)
         IN IF ~fr.ok THEN [ok |-> FALSE, events |-> <<>>]
            ELSE LET rest == ReadFrom(mm, at - fr.size - 2)
                 IN [ok |-> rest.ok, events |-> <<Decode(fr.payload)>> \o rest.events]
    ELSE [ok |-> TRUE, events |-> <<>>]

ReadOsh(mm) == ReadFrom(mm, Len(mm) - 2)

\* ------------------------------------------------------ the merge reader
\* read_events_from_paths: heapq.merge(*sources, key=timestamp, reverse=True).
\* A merge is a record: rest[i] is what source i has not yet been asked for,
\* heads[i] is the heap entry of source i (<<>> when it has none), cur is
\* the source whose entry was yielded last, out is what was yielded and
\* from[k] is the source that out[k] came from.
SourceIds == {1, 2, 3}

MergeStart(sources) ==
    [input |-> sources, rest |-> sources,
     heads |-> [i \in DOMAIN sources |-> <<>>],
     cur |-> 0, out |-> <<>>, from |-> <<>>, phase |-> "start"]

MergeIdle == [MergeStart(<<>>) EXCEPT !.phase = "idle"]

\* a reader that is not a generator: asked for its next value it reads its
\* source to the end
MergeAdvanceEager(m, i) ==
    IF m.rest[i] = <<>>
    THEN [m EXCEPT !.heads[i] = <<>>]
    ELSE [m EXCEPT !.heads[i] = <<Head(m.rest[i])>>, !.rest[i] = <<>>]

\* the next value of source i, moved into its heap entry; the entry goes
\* away when the source is exhausted
MergeAdvance(m, i) ==
    IF m.rest[i] = <<>>
    THEN [m EXCEPT !.heads[i] = <<>>]
    ELSE [m EXCEPT !.heads[i] = <<Head(m.rest[i])>>, !.rest[i] = Tail(m.rest[i])]

\* heapq.merge, before the first yield: the first value of every source
\* is read, in the order of the sources
RECURSIVE MergePrimeFrom(_, _)
MergePrimeFrom(m, i) ==
    IF i > Len(m.input) THEN m ELSE MergePrimeFrom(MergeAdvance(m, i), i + 1)

MergePrime(m) == [MergePrimeFrom(m, 1) EXCEPT !.phase = "yield"]

\* the order of a heap built for reverse=False: the smallest key on top
MergeAboveAscending(ka, oa, kb, ob) == ka < kb \/ (ka = kb /\ oa < ob)

\* the order of the max-heap of entries [key, -order, ...]: the entry of the
\* larger timestamp is above, of two equal timestamps the one of the
\* earlier source
MergeAbove(ka, oa, kb, ob) == ka > kb \/ (ka = kb /\ oa < ob)

MergeLive(m) == {i \in DOMAIN m.heads : m.heads[i] # <<>>}

\* h[0], the top of the heap
MergeTop(m) ==
    CHOOSE i \in MergeLive(m) :
        \A j \in MergeLive(m) \ {i} :
            MergeAbove(m.heads[i][1].timestamp, i, m.heads[j][1].timestamp, j)

\* yield value, of the top entry
MergeYield(m) ==
    IF MergeLive(m) = {}
    THEN [m EXCEPT !.phase = "done"]
    ELSE [m EXCEPT !.out = Append(@, m.heads[MergeTop(m)][1]),
                   !.from = Append(@, MergeTop(m)),
                   !.cur = MergeTop(m), !.phase = "pull"]

\* value = next_() after the consumer asked for more, and _heapreplace, or
\* _heappop on StopIteration
MergePull(m) == [MergeAdvance(m, m.cur) EXCEPT !.phase = "yield"]

MergeStepOf(m) ==
    IF m.phase = "start" THEN MergePrime(m)
    ELSE IF m.phase = "yield" THEN MergeYield(m)
    ELSE IF m.phase = "pull" THEN MergePull(m)
    ELSE m

\* the merge drained by its consumer (list(...), a for loop to the end)
RECURSIVE MergeRun(_)
MergeRun(m) == IF m.phase = "done" THEN m ELSE MergeRun(MergeStepOf(m))

MergeAll(sources) == MergeRun(MergeStart(sources)).out

\* ------------------------------------------------------ the base directory
\* read_osh_events as a whole: mmap raises on an empty file
ReadOshEvents(data) ==
    IF Len(data) = 0 THEN [ok |-> FALSE, events |-> <<>>] ELSE ReadOsh(data)

\* sorted(events, key=timestamp, reverse=True): a stable sort, the events of
\* one timestamp keep their order
RECURSIVE SortNewestFirst(_)
SortNewestFirst(es) ==
    IF es = <<>> THEN <<>>
    ELSE LET e == Head(es)
             rest == SortNewestFirst(Tail(es))
             k == Cardinality({i \in 1..Len(rest) : rest[i].timestamp > e.timestamp})
         IN SubSeq(rest, 1, k) \o <<e>> \o SubSeq(rest, k + 1, Len(rest))

\* read_zsh_events, given the records of the file in file order
ReadZshEvents(records) == [ok |-> TRUE, events |-> SortNewestFirst(records)]

\* read_osh_legacy_events: the entries of the JSON array from the last to the
\* first, those without a session key skipped
RECURSIVE LegacyEvents(_)
LegacyEvents(entries) ==
    IF entries = <<>> THEN <<>>
    ELSE LET last == entries[Len(entries)]
             before == SubSeq(entries, 1, Len(entries) - 1)
         IN IF last.session THEN <<last.event>> \o LegacyEvents(before)
            ELSE LegacyEvents(before)

ReadOshLegacyEvents(entries) == [ok |-> TRUE, events |-> LegacyEvents(entries)]

\* read_events_from_path: the reader is chosen by the suffix of the file
ReadEventsFromPath(src) ==
    IF src.kind = "osh_legacy" THEN ReadOshLegacyEvents(src.content)
    ELSE IF src.kind = "zsh_history" THEN ReadZshEvents(src.content)
    ELSE ReadOshEvents(src.content)

\* the orders in which the elements of a set of paths may be iterated
Orderings(S) ==
    {o \in [1..Cardinality(S) -> S] : \A i, j \in DOMAIN o : i # j => o[i] # o[j]}

\* read_events_from_paths over the sources in the order o
ReadEventsFromPaths(srcs, o) ==
    LET reads == [i \in DOMAIN o |-> ReadEventsFromPath(srcs[o[i]])]
    IN [ok |-> \A i \in DOMAIN o : reads[i].ok,
        events |-> MergeAll([i \in DOMAIN o |-> reads[i].events])]

\* the loop of app_search and app_list: the events are emitted up to the
\* first one that is newer than the one before it, where the assertion fails
RECURSIVE EmitFrom(_, _)
EmitFrom(events, i) ==
    IF i > Len(events) THEN [status |-> "ok", emitted |-> events]
    ELSE IF i > 1 /\ ~(events[i - 1].timestamp >= events[i].timestamp)
    THEN [status |-> "assert", emitted |-> SubSeq(events, 1, i - 1)]
    ELSE EmitFrom(events, i + 1)

Emit(events) == EmitFrom(events, 1)

NoSource == [present |-> FALSE, kind |-> "osh", content |-> <<>>, mtime |-> 0]

NoCache == [exists |-> FALSE, data |-> <<>>, mtime |-> 0]

ArchiveSlots == {1, 2}

\* the base directory: the archive sources, archived.osh, local.osh, the
\* time of the file system, and the outcome of the last search. builds is
\* the set of contents that rebuilds gave archived.osh since the content of
\* the sources last changed, last is what happened last to the directory,
\* changes counts the files added to, replaced in and removed from archive/.
\* active is the log active/a.osh; link says that local.osh is a symbolic
\* link to it (local is then no file of its own).
BaseIdle ==
    [arch |-> [i \in ArchiveSlots |-> NoSource], cache |-> NoCache,
     local |-> NoFile, clock |-> 0,
     result |-> [status |-> "none", emitted |-> <<>>],
     builds |-> {}, last |-> "none", changes |-> 0,
     link |-> FALSE, active |-> NoFile, unlinked |-> FALSE]

\* cached_source.stat().st_mtime < archived_mtime, or the cache is missing
CacheIsStale(b, present) ==
    LET archived_mtime ==
            CHOOSE m \in {b.arch[i].mtime : i \in present} :
                \A i \in present : b.arch[i].mtime <= m
    IN ~b.cache.exists \/ b.cache.mtime < archived_mtime

\* the archive cache is left where it is when there is no archive source
RefreshCacheKeep(b, o) ==
    LET present == {i \in ArchiveSlots : b.arch[i].present}
        archived == ReadEventsFromPaths(b.arch, o)
    IN IF present = {} \/ ~CacheIsStale(b, present)
       THEN [cache |-> b.cache, failed |-> FALSE, rebuilt |-> FALSE, unlinked |-> FALSE]
       ELSE IF ~archived.ok
       THEN [cache |-> b.cache, failed |-> TRUE, rebuilt |-> FALSE, unlinked |-> FALSE]
       ELSE [cache |-> [exists |-> TRUE,
                        data |-> FramesOf(Reverse(archived.events)),
                        mtime |-> b.clock],
             failed |-> FALSE, rebuilt |-> TRUE, unlinked |-> FALSE]

\* read_events_from_base up to line 283: the archive cache is deleted when
\* there is no archive source, rebuilt when it is missing or older than a
\* source (the sources merged in the order o), and left alone otherwise.
\* failed says that a reader of an archive source raised, unlinked that an
\* existing cache was deleted.
RefreshCache(b, o) ==
    LET present == {i \in ArchiveSlots : b.arch[i].present}
        archived == ReadEventsFromPaths(b.arch, o)
    IN IF present = {}
       THEN [cache |-> NoCache, failed |-> FALSE, rebuilt |-> FALSE,
             unlinked |-> b.cache.exists]
       ELSE IF ~CacheIsStale(b, present)
       THEN [cache |-> b.cache, failed |-> FALSE, rebuilt |-> FALSE, unlinked |-> FALSE]
       ELSE IF ~archived.ok
       THEN [cache |-> b.cache, failed |-> TRUE, rebuilt |-> FALSE, unlinked |-> FALSE]
       ELSE [cache |-> [exists |-> TRUE,
                        data |-> FramesOf(Reverse(archived.events)),
                        mtime |-> b.clock],
             failed |-> FALSE, rebuilt |-> TRUE, unlinked |-> FALSE]

\* read_events_from_base from line 285: the local log and the cache, each
\* read as a .osh file under the shared lock, merged in the order o
BasePaths == {"local.osh", "active/a.osh", "archived.osh"}

\* a path taken as it is
ResolveNot(b, path) == path

\* path.resolve(): a symbolic link is replaced by its target
Resolve(b, path) == IF path = "local.osh" /\ b.link THEN "active/a.osh" ELSE path

\* the file that opening a path reaches; the system follows a symbolic link
FileAt(b, cache, path) ==
    IF path = "archived.osh" THEN [exists |-> cache.exists, data |-> cache.data]
    ELSE IF path = "active/a.osh" \/ (path = "local.osh" /\ b.link) THEN b.active
    ELSE b.local

BaseSources(b, cache) ==
    [path \in BasePaths |->
        [present |-> FileAt(b, cache, path).exists, kind |-> "osh",
         content |-> FileAt(b, cache, path).data]]

\* the set sources of read_events_from_base: the logs under active/, the
\* local log when it exists, all resolved, and the archive cache
BaseSourceNames(b, cache) ==
    LET local_source == Resolve(b, "local.osh")
        found == IF b.active.exists THEN {"active/a.osh"} ELSE {}
        active_sources ==
            IF FileAt(b, cache, local_source).exists
            THEN found \cup {local_source} ELSE found
    IN {Resolve(b, path) : path \in active_sources}
         \cup (IF cache.exists THEN {"archived.osh"} ELSE {})

\* ------------------------------------------------------------ processes
NoEvent == Event(0, <<>>)

IdleProc(n) ==
    [pc |-> "idle", kind |-> "none", status |-> "none", n |-> n,
     ev |-> NoEvent, wq |-> <<>>, pos |-> 0, mm |-> 0, insert_at |-> 0,
     at |-> 0, out |-> <<>>, pre |-> <<>>,
     prev |-> [kind |-> "none", status |-> "none", es |-> <<>>]]

\* a process starts an operation with fresh locals; pre is the content of
\* the file at the call (later: when the lock was taken), prev is what the
\* operation before this one was and the events it wrote or yielded
Begin(p, kind, pc, ev, wq) ==
    [IdleProc(proc[p].n + 1) EXCEPT !.pc = pc, !.kind = kind,
                                    !.status = "running", !.ev = ev, !.wq = wq,
                                    !.pre = file.data,
                                    !.prev = [kind |-> proc[p].kind,
                                              status |-> proc[p].status,
                                              es |-> proc[p].out]]

CanBegin(p) == proc[p].pc = "idle" /\ proc[p].n < MaxOps

\* the operation of p ends: its file is closed, which drops its locks
Unlock(p) ==
    /\ lockSh' = lockSh \ {p}
    /\ lockEx' = lockEx \ {p}

Finish(p, status) ==
    /\ proc' = [proc EXCEPT ![p].pc = "idle", ![p].status = status]
    /\ Unlock(p)

\* fcntl.flock(f, LOCK_EX) returns once no other open file holds a lock
FlockExGranted(p) == lockEx \ {p} = {} /\ lockSh \ {p} = {}

\* a shared lock that is not waited for (lock=False)
FlockShNotTaken(p) == TRUE

\* fcntl.flock(f, LOCK_SH) returns once no other open file holds LOCK_EX
FlockShGranted(p) == lockEx \ {p} = {}

\* the bag of the events an operation stored
RECURSIVE BagOfSeq(_)
BagOfSeq(es) ==
    IF es = <<>> THEN EmptyBag ELSE SetToBag({Head(es)}) (+) BagOfSeq(Tail(es))

\* insert_osh_event(event, path, lock=True) is called on the file as it is
StartInsert(p) ==
    /\ CanBegin(p)
    /\ UNCHANGED <<merge, base, app>>
    /\ \E e \in FitEvents :
          proc' = [proc EXCEPT ![p] = Begin(p, "insert", "ins_check", e, <<>>)]
    /\ UNCHANGED <<file, lockSh, lockEx, committed, stored>>

\* app_append_event: the file is created when it is missing, then the
\* event is inserted
AppendEvent(p) ==
    /\ CanBegin(p)
    /\ UNCHANGED <<merge, base, app>>
    /\ \E e \in FitEvents :
          proc' = [proc EXCEPT ![p] = Begin(p, "insert", "ins_check", e, <<>>)]
    /\ file' = [file EXCEPT !.exists = TRUE]
    /\ UNCHANGED <<lockSh, lockEx, committed, stored>>

\* insert_osh_event is called with an event whose payload has 2**16 bytes
\* or more
StartInsertOversized(p) ==
    /\ CanBegin(p)
    /\ UNCHANGED <<merge, base, app>>
    /\ \E e \in OversizedEvents :
          proc' = [proc EXCEPT ![p] = Begin(p, "insert", "ins_check", e, <<>>)]
    /\ UNCHANGED <<file, lockSh, lockEx, committed, stored>>

\* the process is killed inside an operation: its open files are closed,
\* which drops its locks; the bytes it wrote stay in the file
Kill(p) ==
    /\ proc[p].pc # "idle"
    /\ UNCHANGED <<merge, base, app>>
    /\ Finish(p, "killed")
    /\ UNCHANGED <<file, committed, stored>>

\* insert_osh_event, the test of line 68, made before any lock is taken
InsertTakesWritePath == ~file.exists \/ Len(file.data) = 0

InsCheck(p) ==
    /\ proc[p].pc = "ins_check"
    /\ UNCHANGED <<merge, base, app>>
    /\ proc' = [proc EXCEPT
          ![p].pc = IF InsertTakesWritePath THEN "w_open" ELSE "i_lock",
          ![p].wq = IF InsertTakesWritePath THEN <<proc[p].ev>> ELSE <<>>]
    /\ UNCHANGED <<file, lockSh, lockEx, committed, stored>>

\* the file opened for update instead ("r+b"): created, not truncated
WOpenKeepsBytes(p) ==
    /\ proc[p].pc = "w_open"
    /\ UNCHANGED <<merge, base, app>>
    /\ file' = [exists |-> TRUE, data |-> file.data]
    /\ proc' = [proc EXCEPT ![p].pc = "w_lock", ![p].pos = 0]
    /\ UNCHANGED <<lockSh, lockEx, committed, stored>>

\* write_osh_events: path.open("wb") creates or truncates the file
WOpen(p) ==
    /\ proc[p].pc = "w_open"
    /\ UNCHANGED <<merge, base, app>>
    /\ file' = [exists |-> TRUE, data |-> <<>>]
    /\ proc' = [proc EXCEPT ![p].pc = "w_lock", ![p].pos = 0]
    /\ UNCHANGED <<lockSh, lockEx, committed, stored>>

WLock(p) ==
    /\ proc[p].pc = "w_lock"
    /\ UNCHANGED <<merge, base, app>>
    /\ FlockExGranted(p)
    /\ lockEx' = lockEx \cup {p}
    /\ proc' = [proc EXCEPT ![p].pc = "w_write", ![p].pre = file.data]
    /\ UNCHANGED <<file, lockSh, committed, stored>>

\* write_osh_events: append_osh_event of the next event, at the offset of
\* this open file; an event whose size does not fit the size word raises
WWrite(p) ==
    /\ proc[p].pc = "w_write"
    /\ UNCHANGED <<merge, base, app>>
    /\ proc[p].wq # <<>>
    /\ LET e == Head(proc[p].wq)
           bytes == AppendBytes(e)
       IN IF AppendRaises(e)
          THEN /\ Finish(p, "raised")
               /\ UNCHANGED <<file, committed, stored>>
          ELSE /\ file' = [file EXCEPT !.data = WriteAt(@, proc[p].pos, bytes)]
               /\ proc' = [proc EXCEPT ![p].wq = Tail(@),
                                       ![p].pos = @ + Len(bytes),
                                       ![p].out = IF bytes = <<>> THEN @
                                                  ELSE Append(@, e)]
               /\ UNCHANGED <<lockSh, lockEx, committed, stored>>

\* write_osh_events: the loop is over, the file is closed
WClose(p) ==
    /\ proc[p].pc = "w_write"
    /\ UNCHANGED <<merge, base, app>>
    /\ proc[p].wq = <<>>
    /\ Finish(p, "returned")
    /\ committed' = committed \cup {file.data}
    /\ stored' = IF proc[p].kind = "insert"
                 THEN stored (+) BagOfSeq(proc[p].out) ELSE stored
    /\ UNCHANGED file

\* insert_osh_event on a file that was not empty: path.open("r+b") and
\* fcntl.flock(f, LOCK_EX)
ILock(p) ==
    /\ proc[p].pc = "i_lock"
    /\ UNCHANGED <<merge, base, app>>
    /\ FlockExGranted(p)
    /\ lockEx' = lockEx \cup {p}
    /\ proc' = [proc EXCEPT ![p].pc = "i_scan", ![p].pre = file.data]
    /\ UNCHANGED <<file, lockSh, committed, stored>>

\* size > 2**16: the event is dropped
InsertDrops(size) == size > SizeCheckBound

\* insert_osh_event: the file is mapped (an empty file cannot be mapped),
\* the frames are scanned from the tail, the event is encoded and its size
\* is tested
IScan(p) ==
    /\ proc[p].pc = "i_scan"
    /\ UNCHANGED <<merge, base, app>>
    /\ LET mm == file.data
           r == ScanInsertAt(mm, proc[p].ev, Len(mm))
       IN IF Len(mm) = 0 \/ ~r.ok
          THEN /\ Finish(p, "raised")
               /\ UNCHANGED <<file, committed, stored>>
          ELSE IF InsertDrops(Len(Encode(proc[p].ev)))
          THEN /\ Finish(p, "returned")
               /\ committed' = committed \cup {file.data}
               /\ UNCHANGED <<file, stored>>
          ELSE /\ proc' = [proc EXCEPT ![p].pc = "i_resize",
                                       ![p].mm = Len(mm),
                                       ![p].insert_at = r.at]
               /\ UNCHANGED <<file, lockSh, lockEx, committed, stored>>

\* mm.resize(mm.size() + size + 2)
IResize(p) ==
    /\ proc[p].pc = "i_resize"
    /\ UNCHANGED <<merge, base, app>>
    /\ file' = [file EXCEPT
          !.data = Resize(@, proc[p].mm + Len(Encode(proc[p].ev)) + 2)]
    /\ proc' = [proc EXCEPT ![p].pc = "i_move"]
    /\ UNCHANGED <<lockSh, lockEx, committed, stored>>

\* the bytes of the mapping of p are backed by the file: a file that was
\* truncated under the mapping makes the access fault (SIGBUS)
MappingFaults(p, size) == Len(file.data) < size

\* mm.move(insert_at + size + 2, insert_at, shift_size) when shift_size > 0;
\* a negative offset raises ValueError
IMove(p) ==
    /\ proc[p].pc = "i_move"
    /\ UNCHANGED <<merge, base, app>>
    /\ LET size == Len(Encode(proc[p].ev))
           insert_at == proc[p].insert_at
           shift_size == proc[p].mm - insert_at
       IN IF shift_size > 0 /\ MappingFaults(p, proc[p].mm + size + 2)
          THEN /\ Finish(p, "sigbus")
               /\ UNCHANGED <<file, committed, stored>>
          ELSE IF shift_size > 0 /\ insert_at < 0
          THEN /\ Finish(p, "raised")
               /\ UNCHANGED <<file, committed, stored>>
          ELSE /\ file' = [file EXCEPT !.data =
                             IF shift_size > 0
                             THEN Move(@, insert_at + size + 2, insert_at, shift_size)
                             ELSE @]
               /\ proc' = [proc EXCEPT ![p].pc = "i_write"]
               /\ UNCHANGED <<lockSh, lockEx, committed, stored>>

\* size.to_bytes(...) and mm[insert_at : insert_at + size + 2] = data +
\* size_bytes, then the mapping and the file are closed
IWrite(p) ==
    /\ proc[p].pc = "i_write"
    /\ UNCHANGED <<merge, base, app>>
    /\ LET data == Encode(proc[p].ev)
           size == Len(data)
           insert_at == proc[p].insert_at
       IN IF ~CanToBytes(size)
          THEN /\ Finish(p, "raised")
               /\ UNCHANGED <<file, committed, stored>>
          ELSE IF MappingFaults(p, proc[p].mm + size + 2)
          THEN /\ Finish(p, "sigbus")
               /\ UNCHANGED <<file, committed, stored>>
          ELSE IF insert_at < 0
          THEN /\ Finish(p, "raised")
               /\ UNCHANGED <<file, committed, stored>>
          ELSE /\ file' = [file EXCEPT
                             !.data = WriteAt(@, insert_at, data \o ToBytes(size))]
               /\ Finish(p, "returned")
               /\ committed' = committed \cup {file'.data}
               /\ stored' = stored (+) SetToBag({proc[p].ev})

\* read_osh_events(path, lock=True) is called and its generator is started:
\* path.open("r+b") raises when the file is missing
StartRead(p) ==
    /\ CanBegin(p)
    /\ UNCHANGED <<merge, base, app>>
    /\ proc' = [proc EXCEPT ![p] =
          IF file.exists
          THEN Begin(p, "read", "r_lock", NoEvent, <<>>)
          ELSE [Begin(p, "read", "idle", NoEvent, <<>>) EXCEPT !.status = "raised"]]
    /\ UNCHANGED <<file, lockSh, lockEx, committed, stored>>

\* fcntl.flock(f, LOCK_SH) and mmap.mmap(f.fileno(), 0), which raises
\* ValueError on an empty file
RLock(p) ==
    /\ proc[p].pc = "r_lock"
    /\ UNCHANGED <<merge, base, app>>
    /\ FlockShGranted(p)
    /\ IF Len(file.data) = 0
       THEN /\ Finish(p, "raised")
       ELSE /\ lockSh' = lockSh \cup {p}
            /\ proc' = [proc EXCEPT ![p].pc = "r_step",
                                    ![p].mm = Len(file.data),
                                    ![p].at = Len(file.data) - 2,
                                    ![p].pre = file.data]
            /\ UNCHANGED lockEx
    /\ UNCHANGED <<file, committed, stored>>

\* read_osh_events: one turn of the loop, one event is yielded
RStep(p) ==
    /\ proc[p].pc = "r_step"
    /\ UNCHANGED <<merge, base, app>>
    /\ proc[p].at > 0
    /\ LET fr == ReadFrame(file.data, proc[p].at)
       IN IF MappingFaults(p, proc[p].mm)
          THEN Finish(p, "sigbus")
          ELSE IF ~fr.ok
          THEN Finish(p, "raised")
          ELSE /\ proc' = [proc EXCEPT ![p].out = Append(@, Decode(fr.payload)),
                                       ![p].at = @ - fr.size - 2]
               /\ UNCHANGED <<lockSh, lockEx>>
    /\ UNCHANGED <<file, committed, stored>>

\* read_osh_events: the loop is over, the mapping and the file are closed
RClose(p) ==
    /\ proc[p].pc = "r_step"
    /\ UNCHANGED <<merge, base, app>>
    /\ proc[p].at <= 0
    /\ Finish(p, "returned")
    /\ UNCHANGED <<file, committed, stored>>

\* ------------------------------------------------------------ commands
\* The events a command works on carry the fields it looks at. An optional
\* field (None | int, None | str) is <<>> when it is None and <<v>> when it
\* has the value v.
None == <<>>

Some(v) == <<v>>

AppIdle == [cmd |-> "none", phase |-> "idle"]

SearchEvent(ts, cmd, code, folder, session) ==
    [timestamp |-> ts, command |-> cmd, exit_code |-> code,
     folder |-> folder, session |-> session]

\* the test of mode=folder, made in mode=session
SessionKeepsFolder(e, session) == e.folder = Some(session)

\* app_search, mode=session: e.session == session
SessionKeeps(e, session) == e.session = Some(session)

\* [e for e in events if e.session == session]
RECURSIVE SessionFilter(_, _)
SessionFilter(events, session) ==
    IF events = <<>> THEN <<>>
    ELSE (IF SessionKeeps(Head(events), session) THEN <<Head(events)>> ELSE <<>>)
            \o SessionFilter(Tail(events), session)

\* app_search, mode=folder: e.folder == folder
FolderKeeps(e, folder) == e.folder = Some(folder)

\* [e for e in events if e.folder == folder]
RECURSIVE FolderFilter(_, _)
FolderFilter(events, folder) ==
    IF events = <<>> THEN <<>>
    ELSE (IF FolderKeeps(Head(events), folder) THEN <<Head(events)>> ELSE <<>>)
            \o FolderFilter(Tail(events), folder)

\* success / count, the exact quotient, as the pair of the two numbers
Ratio(n, count) == <<n, count>>

\* the oldest timestamp of a bag
MinTimestamp(bag) ==
    CHOOSE t \in {bag[i].timestamp : i \in DOMAIN bag} :
        \A i \in DOMAIN bag : bag[i].timestamp >= t

\* max(e.timestamp for e in bag)
MaxTimestamp(bag) ==
    CHOOSE t \in {bag[i].timestamp : i \in DOMAIN bag} :
        \A i \in DOMAIN bag : bag[i].timestamp <= t

\* BaggedEvent.from_bag: e.exit_code != 0 is true of None too
FromBag(command, bag) ==
    LET success == Cardinality({i \in DOMAIN bag : bag[i].exit_code = Some(0)})
        failure == Cardinality({i \in DOMAIN bag : bag[i].exit_code # Some(0)})
        count == Len(bag)
        unknown == count - success - failure
    IN [timestamp |-> MaxTimestamp(bag),
        command |-> command,
        count |-> count,
        success_ratio |-> Ratio(success, count),
        failure_ratio |-> Ratio(failure, count),
        unknown_ratio |-> Ratio(unknown, count)]

\* bagged_events: the keys of the dict, in the order of their first insertion
RECURSIVE BagKeys(_)
BagKeys(events) ==
    IF events = <<>> THEN <<>>
    ELSE LET before == BagKeys(SubSeq(events, 1, Len(events) - 1))
             cmd == events[Len(events)].command
         IN IF \E i \in DOMAIN before : before[i] = cmd THEN before
            ELSE Append(before, cmd)

\* a dict whose entry for a command is replaced by every later event
RECURSIVE BagOfLast(_, _)
BagOfLast(events, cmd) ==
    IF events = <<>> THEN <<>>
    ELSE LET later == BagOfLast(Tail(events), cmd)
         IN IF later # <<>> THEN later
            ELSE IF Head(events).command = cmd THEN <<Head(events)>> ELSE <<>>

\* bagged_events: the list that the dict holds for one command
RECURSIVE BagOf(_, _)
BagOf(events, cmd) ==
    IF events = <<>> THEN <<>>
    ELSE (IF Head(events).command = cmd THEN <<Head(events)>> ELSE <<>>)
            \o BagOf(Tail(events), cmd)

BaggedEvents(events) ==
    [i \in DOMAIN BagKeys(events) |->
        FromBag(BagKeys(events)[i], BagOf(events, BagKeys(events)[i]))]

\* app_search, the match on the mode; no mode given is mode=all
SearchCollect(mode, session, folder, events) ==
    IF mode \in {"default", "all"} THEN events
    ELSE IF mode = "session"
    THEN (IF session # None THEN SessionFilter(events, session[1]) ELSE events)
    ELSE IF mode = "folder"
    THEN (IF folder # None THEN FolderFilter(events, folder[1]) ELSE events)
    ELSE BaggedEvents(events)

\* app_search, given the stream of read_events_from_base
AppSearch ==
    /\ app.cmd = "search"
    /\ app.phase = "start"
    /\ app' = [app EXCEPT
                 !.phase = "done",
                 !.result = Emit(SearchCollect(app.mode, app.session, app.folder,
                                               app.stream))]
    /\ UNCHANGED <<procVars, merge, base>>

\* insert_osh_event(event, path, lock=True) run alone on the file f
InsertOshEvent(f, event) ==
    IF ~f.exists \/ Len(f.data) = 0
    THEN [exists |-> TRUE, data |-> FramesOf(<<event>>)]
    ELSE LET mm == f.data
             insert_at == ScanInsertAt(mm, event, Len(mm)).at
             data == Encode(event)
             size == Len(data)
             shift_size == Len(mm) - insert_at
             resized == Resize(mm, Len(mm) + size + 2)
             moved == IF shift_size > 0
                      THEN Move(resized, insert_at + size + 2, insert_at, shift_size)
                      ELSE resized
         IN IF InsertDrops(size) THEN f
            ELSE [exists |-> TRUE,
                  data |-> WriteAt(moved, insert_at, data \o ToBytes(size))]

\* app_append_event run alone: local.osh is resolved when it is a symbolic
\* link, the file is created when it is missing, the event is inserted
AppAppendEvent ==
    /\ BagCardinality(stored) < MaxOps
    /\ \E e \in FitEvents :
          LET path == IF base.link THEN Resolve(base, "local.osh") ELSE "local.osh"
              f == InsertOshEvent(FileAt(base, base.cache, path), e)
          IN /\ base' = IF path = "active/a.osh"
                        THEN [base EXCEPT !.active = f, !.last = "append"]
                        ELSE [base EXCEPT !.local = f, !.last = "append"]
             /\ stored' = stored (+) SetToBag({e})
    /\ UNCHANGED <<file, lockSh, lockEx, proc, committed, merge, app>>

\* sorted(events, key=timestamp): a stable sort, the events of one
\* timestamp keep their order
RECURSIVE SortOldestFirst(_)
SortOldestFirst(es) ==
    IF es = <<>> THEN <<>>
    ELSE LET e == Head(es)
             rest == SortOldestFirst(Tail(es))
             k == Cardinality({i \in 1..Len(rest) : rest[i].timestamp < e.timestamp})
         IN SubSeq(rest, 1, k) \o <<e>> \o SubSeq(rest, k + 1, Len(rest))

\* the name of a path is its first part followed by its suffixes
PathName(src) == <<"a", src.kind>>

\* path.suffixes
Suffixes(name) == Tail(name)

\* path.with_name(path.name[: -sum(map(len, path.suffixes))] + ".osh"); the
\* slice [:-0] of a name without suffixes is empty
NewPath(name) ==
    IF Suffixes(name) = <<>> THEN <<"osh">>
    ELSE SubSeq(name, 1, Len(name) - Len(Suffixes(name))) \o <<"osh">>

\* write_osh_events on a file opened with "wb": the frames of the events
\* up to the first one whose size word cannot be formed, dropped events
\* left out
RECURSIVE WriteOshEvents(_)
WriteOshEvents(es) ==
    IF es = <<>> THEN [raised |-> FALSE, data |-> <<>>]
    ELSE IF AppendRaises(Head(es)) THEN [raised |-> TRUE, data |-> <<>>]
    ELSE LET rest == WriteOshEvents(Tail(es))
         IN [raised |-> rest.raised, data |-> AppendBytes(Head(es)) \o rest.data]

\* app_convert of one path: the events of the file are read into a list,
\* sorted, and written to new_path; the path is unlinked when its name
\* differs from new_path. Nothing is written when the reader raises, and
\* nothing is unlinked when the write raises. app.path and app.name are the
\* file and the name the next run is called on.
AppConvert ==
    /\ app.cmd = "convert"
    /\ app.runs < MaxConverts
    /\ LET events == ReadEventsFromPath(app.path)
           new_path == NewPath(app.name)
           write == WriteOshEvents(SortOldestFirst(events.events))
           done == events.ok /\ ~write.raised
       IN app' = [app EXCEPT
                    !.runs = @ + 1,
                    !.status = IF done THEN "ok" ELSE "raised",
                    !.before = app.path,
                    !.from = app.name,
                    !.written = IF events.ok
                                THEN [exists |-> TRUE, name |-> new_path,
                                      content |-> write.data]
                                ELSE [exists |-> FALSE, name |-> new_path,
                                      content |-> <<>>],
                    !.unlinked = done /\ app.name # new_path,
                    !.name = IF done THEN new_path ELSE @,
                    !.path = IF events.ok /\ (done \/ app.name = new_path)
                             THEN [kind |-> "osh", content |-> write.data]
                             ELSE @]
    /\ UNCHANGED <<procVars, merge, base>>

\* a .zsh_history file is a text over a small alphabet: "h1" and "h2" stand
\* for the record prefixes ": 1:0;" and ": 2:0;", "bs" for a backslash,
\* "nl" for a newline, "a" for any other character
ZshHeaders == {"h1", "h2"}

ZshChars == ZshHeaders \cup {"a", "bs", "nl"}

ZshTimestamp(c) == IF c = "h1" THEN 1 ELSE 2

\* str.split("\n"): the pieces between the newlines, one more than there
\* are newlines
RECURSIVE SplitLines(_)
SplitLines(text) ==
    IF \A i \in DOMAIN text : text[i] # "nl" THEN <<text>>
    ELSE LET k == CHOOSE i \in DOMAIN text :
                      text[i] = "nl" /\ \A j \in 1..(i - 1) : text[j] # "nl"
         IN <<SubSeq(text, 1, k - 1)>> \o SplitLines(SubSeq(text, k + 1, Len(text)))

\* path.read_text(...).split("\n")[:-1]
ZshHistoryLines(text) ==
    LET pieces == SplitLines(text) IN SubSeq(pieces, 1, Len(pieces) - 1)

\* zsh_event_pattern.fullmatch(content)
ZshMatches(content) == content # <<>> /\ content[1] \in ZshHeaders

ZshEvent(ts, command) ==
    [timestamp |-> ts, command |-> command, duration |-> None,
     exit_code |-> None, folder |-> None, machine |-> None, session |-> None]

\* while command.endswith("\\"): the next line is taken from the iterator
\* and joined; next() on the exhausted iterator raises
RECURSIVE ZshContinue(_, _, _)
ZshContinue(lines, line, command) ==
    IF command # <<>> /\ command[Len(command)] = "bs"
    THEN IF line + 1 > Len(lines)
         THEN [ok |-> FALSE, line |-> line, command |-> command]
         ELSE ZshContinue(lines, line + 1,
                          SubSeq(command, 1, Len(command) - 1) \o <<"nl">> \o lines[line + 1])
    ELSE [ok |-> TRUE, line |-> line, command |-> command]

\* the loop of read_zsh_events over the lines, and the sorted yield
RECURSIVE ZshParse(_, _, _)
ZshParse(lines, line, events) ==
    IF line > Len(lines)
    THEN [status |-> "ok", events |-> SortNewestFirst(events)]
    ELSE IF ~ZshMatches(lines[line])
    THEN [status |-> "assert", events |-> <<>>]
    ELSE LET joined == ZshContinue(lines, line, Tail(lines[line]))
         IN IF ~joined.ok THEN [status |-> "stop_iteration", events |-> <<>>]
            ELSE ZshParse(lines, joined.line + 1,
                          Append(events, ZshEvent(ZshTimestamp(lines[line][1]), joined.command)))

\* read_zsh_events on the text of a file
ReadZshHistory(text) == ZshParse(ZshHistoryLines(text), 1, <<>>)

\* the generator is run to its end on the file
AppReadZsh ==
    /\ app.cmd = "read_zsh" /\ app.phase = "start"
    /\ app' = [app EXCEPT !.phase = "done", !.result = ReadZshHistory(app.text)]
    /\ UNCHANGED <<procVars, merge, base>>

\* read_osh_legacy_events run to its end on the JSON array of a file
AppReadLegacy ==
    /\ app.cmd = "read_osh_legacy" /\ app.phase = "start"
    /\ app' = [app EXCEPT !.phase = "done", !.result = ReadOshLegacyEvents(app.data)]
    /\ UNCHANGED <<procVars, merge, base>>

\* read_osh_events consumed one event at a time: the events yielded before
\* the scan ends or raises, and whether it ended without raising; an empty
\* file cannot be mapped
RECURSIVE ReadLazyFrom(_, _)
ReadLazyFrom(mm, at) ==
    IF at > 0
    THEN LET fr == ReadFrame(mm, at)
         IN IF ~fr.ok THEN [ok |-> FALSE, events |-> <<>>]
            ELSE LET rest == ReadLazyFrom(mm, at - fr.size - 2)
                 IN [ok |-> rest.ok, events |-> <<Decode(fr.payload)>> \o rest.events]
    ELSE [ok |-> TRUE, events |-> <<>>]

ReadOshLazy(data) ==
    IF Len(data) = 0 THEN [ok |-> FALSE, events |-> <<>>]
    ELSE ReadLazyFrom(data, Len(data) - 2)

\* read_events_from_path(source, lock=True) as the loop of check consumes
\* it: the readers of the legacy formats build their list before they yield
CheckStream(src) ==
    IF src.kind = "osh_legacy" THEN ReadOshLegacyEvents(src.content)
    ELSE IF src.kind = "zsh_history"
    THEN LET read == ReadZshHistory(src.content)
         IN [ok |-> read.status = "ok", events |-> read.events]
    ELSE ReadOshLazy(src.content)

\* the inner loop of app_check on one source: "not sorted" at the first
\* event that is newer than the one before it (what the reader would do
\* after it is not asked for), otherwise the end of the stream or the
\* exception of the reader
CheckSource(src) ==
    LET stream == CheckStream(src)
        unsorted == \E i \in 1..(Len(stream.events) - 1) :
                        ~(stream.events[i].timestamp >= stream.events[i + 1].timestamp)
    IN IF unsorted THEN "not sorted"
       ELSE IF stream.ok THEN "sorted"
       ELSE "raised"

\* the outer loop of app_check from source i on: an exception of a reader
\* is not caught and ends the process
RECURSIVE CheckFrom(_, _, _, _)
CheckFrom(sources, i, printed, failed) ==
    IF i > Len(sources)
    THEN [printed |-> printed, raised |-> FALSE, exit |-> IF failed THEN 1 ELSE 0]
    ELSE LET status == CheckSource(sources[i])
         IN IF status = "raised"
            THEN [printed |-> printed, raised |-> TRUE, exit |-> 1]
            ELSE CheckFrom(sources, i + 1, Append(printed, status),
                           failed \/ status = "not sorted")

\* app_check: the sources in the order of their sorted paths
AppCheck ==
    /\ app.cmd = "check" /\ app.phase = "start"
    /\ app' = [app EXCEPT !.phase = "done",
                          !.result = CheckFrom(app.sources, 1, <<>>, FALSE)]
    /\ UNCHANGED <<procVars, merge, base>>

\* a duration is an exact number whole + num / den with 0 <= num < den
\* (the code computes with floats)
Mixed(n, den) == [whole |-> n \div den, num |-> n % den, den |-> den]

\* x * k
Times(x, k) ==
    [whole |-> x.whole * k + (x.num * k) \div x.den,
     num |-> (x.num * k) % x.den, den |-> x.den]

\* x / k
Over(x, k) ==
    [whole |-> x.whole \div k,
     num |-> (x.whole % k) * x.den + x.num, den |-> x.den * k]

\* x < k, for an integer k
Below(x, k) == x.whole < k

\* the nearest integer below or at x
RoundDown(x) == x.whole

\* round(x): the nearest integer, the even one of the two when x is halfway
Round(x) ==
    IF 2 * x.num < x.den THEN x.whole
    ELSE IF 2 * x.num > x.den THEN x.whole + 1
    ELSE IF x.whole % 2 = 0 THEN x.whole
    ELSE x.whole + 1

\* human_duration(dt), dt in seconds; ms = dt * 1000 is formed only below
\* one second, ms < 1000 is dt < 1 and s = ms / 1000 is dt
HumanDuration(dt) ==
    IF Below(dt, 1) THEN [value |-> Round(Times(dt, 1000)), unit |-> "ms"]
    ELSE LET s == dt IN
    IF Below(s, 60) THEN [value |-> Round(s), unit |-> "s"]
    ELSE LET m == Over(s, 60) IN
    IF Below(m, 60) THEN [value |-> Round(m), unit |-> "m"]
    ELSE LET h == Over(m, 60) IN
    IF Below(h, 24) THEN [value |-> Round(h), unit |-> "h"]
    ELSE LET d == Over(h, 24) IN
    IF Below(d, 7) THEN [value |-> Round(d), unit |-> "D"]
    ELSE IF Below(d, 365) THEN [value |-> Round(Over(d, 7)), unit |-> "W"]
    ELSE LET y == Over(d, 365) IN [value |-> Round(y), unit |-> "Y"]

AppHumanDuration ==
    /\ app.cmd = "human_duration" /\ app.phase = "start"
    /\ app' = [app EXCEPT !.phase = "done", !.result = HumanDuration(app.dt)]
    /\ UNCHANGED <<procVars, merge, base>>

\* the advisory locks of the files of a base directory, and the commands
\* that take them. A runner is a process that runs commands one after the
\* other; sh[f] and ex[f] are the runners holding a shared and an exclusive
\* flock on file f, by an open file of their own.
Runners == {"r1", "r2", "r3"}

LockFiles == {"local.osh", "archived.osh"}

RunnerIdle(n) == [kind |-> "none", pc |-> "idle", file |-> "none", todo |-> <<>>, n |-> n]

\* a generator that is kept and not run to its end holds its file open
AfterIter(p) == {p}

\* list(generator): the generator has run to its end and its file is closed
AfterList(p) == {}

\* flock(f, LOCK_EX) is granted when no open file holds a lock on the file
ExFree(f) == app.sh[f] = {} /\ app.ex[f] = {}

\* flock(f, LOCK_SH) is granted when no open file holds an exclusive lock
ShFree(f) == app.ex[f] = {}

RunnerCanBegin(p) == app.run[p].pc = "idle" /\ app.run[p].n > 0

\* app_append_event: insert_osh_event(event, local.osh, lock=True)
StartAppend(p) ==
    /\ app.cmd = "locks" /\ RunnerCanBegin(p)
    /\ app' = [app EXCEPT !.run[p] = [kind |-> "append", pc |-> "flock_ex",
                                      file |-> "local.osh", todo |-> <<>>, n |-> @.n - 1]]
    /\ UNCHANGED <<procVars, merge, base>>

\* app_convert on an .osh file: list(read_events_from_path(path, lock=True))
StartConvert(p) ==
    /\ app.cmd = "locks" /\ RunnerCanBegin(p)
    /\ \E f \in LockFiles :
          app' = [app EXCEPT !.run[p] = [kind |-> "convert", pc |-> "flock_sh",
                                         file |-> f, todo |-> <<f>>, n |-> @.n - 1]]
    /\ UNCHANGED <<procVars, merge, base>>

\* app_search and app_list: read_events_from_base, with a stale cache (the
\* archive is read without locks, then archived.osh is written) or not; the
\* sources are then opened in the order of the set
StartSearch(p) ==
    /\ app.cmd = "locks" /\ RunnerCanBegin(p)
    /\ \E stale \in BOOLEAN, o \in Orderings(LockFiles) :
          app' = [app EXCEPT !.run[p] =
                    [kind |-> "search", pc |-> IF stale THEN "flock_ex" ELSE "flock_sh",
                     file |-> "archived.osh", todo |-> o, n |-> @.n - 1]]
    /\ UNCHANGED <<procVars, merge, base>>

\* app_check: the sources are read one after the other
StartCheck(p) ==
    /\ app.cmd = "locks" /\ RunnerCanBegin(p)
    /\ \E o \in Orderings(LockFiles) :
          app' = [app EXCEPT !.run[p] = [kind |-> "check", pc |-> "flock_sh",
                                         file |-> "none", todo |-> o, n |-> @.n - 1]]
    /\ UNCHANGED <<procVars, merge, base>>

\* fcntl.flock(f, fcntl.LOCK_EX) returns
LockEx(p) ==
    /\ app.cmd = "locks" /\ app.run[p].pc = "flock_ex"
    /\ ExFree(app.run[p].file)
    /\ app' = [app EXCEPT !.ex[app.run[p].file] = @ \cup {p}, !.run[p].pc = "writing"]
    /\ UNCHANGED <<procVars, merge, base>>

\* the frames are written and the file is closed; read_events_from_base
\* goes on to read its sources
WriteClose(p) ==
    /\ app.cmd = "locks" /\ app.run[p].pc = "writing"
    /\ app' = [app EXCEPT
                 !.ex[app.run[p].file] = @ \ {p},
                 !.run[p] = IF @.kind = "search" THEN [@ EXCEPT !.pc = "flock_sh"]
                            ELSE RunnerIdle(@.n)]
    /\ UNCHANGED <<procVars, merge, base>>

\* fcntl.flock(f, fcntl.LOCK_SH) returns, in read_osh_events on the next
\* source; heapq.merge opens all its sources before it yields
LockSh(p) ==
    /\ app.cmd = "locks" /\ app.run[p].pc = "flock_sh"
    /\ ShFree(Head(app.run[p].todo))
    /\ app' = [app EXCEPT
                 !.sh[Head(app.run[p].todo)] = @ \cup {p},
                 !.run[p].todo = Tail(@),
                 !.run[p].pc = IF app.run[p].kind = "search" /\ Tail(app.run[p].todo) # <<>>
                               THEN "flock_sh" ELSE "reading"]
    /\ UNCHANGED <<procVars, merge, base>>

\* read_osh_events on source f ends and its file is closed; check goes on
\* to its next source, convert to write_osh_events
ReadEnd(p) ==
    /\ app.cmd = "locks" /\ app.run[p].pc = "reading"
    /\ \E f \in LockFiles :
          /\ p \in app.sh[f]
          /\ LET kept == IF app.run[p].kind = "convert" THEN AfterList(p) ELSE {}
                 sh == [app.sh EXCEPT ![f] = (@ \ {p}) \cup kept]
                 more == \E g \in LockFiles \ {f} : p \in app.sh[g]
             IN app' = [app EXCEPT
                          !.sh = sh,
                          !.run[p] =
                              IF more THEN @
                              ELSE IF @.kind = "convert" THEN [@ EXCEPT !.pc = "flock_ex"]
                              ELSE IF @.kind = "check" /\ @.todo # <<>>
                              THEN [@ EXCEPT !.pc = "flock_sh"]
                              ELSE RunnerIdle(@.n)]
    /\ UNCHANGED <<procVars, merge, base>>

\* the steps of a command that was started
RunnerStep(p) == LockEx(p) \/ WriteClose(p) \/ LockSh(p) \/ ReadEnd(p)

\* app_convert is called on the log: read_events_from_path(path, lock=True)
\* is started
ConvertStart(p) ==
    /\ CanBegin(p)
    /\ file.exists
    /\ UNCHANGED <<merge, base, app>>
    /\ proc' = [proc EXCEPT ![p] = Begin(p, "convert", "r_lock", NoEvent, <<>>)]
    /\ UNCHANGED <<file, lockSh, lockEx, committed, stored>>

\* app_convert: list(...) has run read_osh_events to its end, the file is
\* closed; the events are sorted and write_osh_events is called with them
ConvertSort(p) ==
    /\ proc[p].pc = "r_step"
    /\ proc[p].kind = "convert"
    /\ proc[p].at <= 0
    /\ UNCHANGED <<merge, base, app>>
    /\ proc' = [proc EXCEPT ![p].pc = "w_open",
                            ![p].wq = SortOldestFirst(proc[p].out),
                            ![p].out = <<>>]
    /\ Unlock(p)
    /\ UNCHANGED <<file, committed, stored>>

\* read_osh_events(path, lock=True) run to its end, alone, on a file that
\* holds the bytes data
AppReadOsh ==
    /\ app.cmd = "read_osh" /\ app.phase = "start"
    /\ app' = [app EXCEPT !.phase = "done", !.result = ReadOshLazy(app.data)]
    /\ UNCHANGED <<procVars, merge, base>>

\* ---- the entries search prints (entry_from_event and the print loop)

\* the characters of a command that matter to the entry format: a plain
\* character, newline, the unit separator 0x1F and NUL
EntryChars == {"a", "nl", "us", "nul"}

\* the symbols a base64 text is made of; none of them is a control byte
B64Symbols == {"A", "B"}

B64Code(c) ==
    CASE c = "a" -> <<"A", "A">>
      [] c = "nl" -> <<"A", "B">>
      [] c = "us" -> <<"B", "A">>
      [] c = "nul" -> <<"B", "B">>

\* b64encode(text.encode()).decode(): every character becomes symbols of
\* the base64 alphabet
RECURSIVE B64Encode(_)
B64Encode(text) ==
    IF text = <<>> THEN <<>> ELSE B64Code(Head(text)) \o B64Encode(Tail(text))

\* preview_from_event: header lines, an empty line and the command,
\* joined by newlines
PreviewFromEvent(command) == <<"a", "nl", "nl">> \o command

\* event.command.replace("\n", glyph)
ReplaceNewlines(command) ==
    [i \in DOMAIN command |-> IF command[i] = "nl" THEN "glyph" ELSE command[i]]

\* "\x1f".join([enc_cmd, enc_preview, f"[{ago: >3} ago] ", cmd])
EntryFromEvent(command) ==
    B64Encode(command) \o <<"us">> \o B64Encode(PreviewFromEvent(command))
        \o <<"us">> \o <<"ago">> \o <<"us">> \o ReplaceNewlines(command)

\* for event in events: print(entry_from_event(...), end="\x00")
RECURSIVE PrintEntries(_)
PrintEntries(commands) ==
    IF commands = <<>> THEN <<>>
    ELSE EntryFromEvent(Head(commands)) \o <<"nul">> \o PrintEntries(Tail(commands))

AppPrintEntries ==
    /\ app.cmd = "entries" /\ app.phase = "start"
    /\ app' = [app EXCEPT !.phase = "done", !.out = PrintEntries(app.commands)]
    /\ UNCHANGED <<file, lockSh, lockEx, proc, committed, stored, merge, base>>

\* ------------------------------------------------------- specifications
\* a log as a sequence of earlier inserts left it: sorted frames
SortedLogs ==
    {FramesOf(<<a>>) : a \in FitEvents} \cup
    {FramesOf(<<a, b>>) :
        a \in {e \in FitEvents : e.timestamp = 1},
        b \in {e \in FitEvents : e.timestamp = MaxTs /\ e.command = <<>>}}

InitWith(files, n1, n2) ==
    /\ file \in files
    /\ lockSh = {}
    /\ lockEx = {}
    /\ proc = [p \in Procs |-> IdleProc(IF p = "p1" THEN n1 ELSE n2)]
    /\ committed = {file.data}
    /\ stored = BagOfSeq(ReadOsh(file.data).events)
    /\ merge = MergeIdle
    /\ base = BaseIdle
    /\ app = AppIdle

Step(p) ==
    \/ InsCheck(p)
    \/ WOpen(p)
    \/ WLock(p)
    \/ WWrite(p)
    \/ WClose(p)
    \/ ILock(p)
    \/ IScan(p)
    \/ IResize(p)
    \/ IMove(p)
    \/ IWrite(p)
    \/ RLock(p)
    \/ RStep(p)
    \/ RClose(p)

Next ==
    \E p \in Procs :
        \/ StartInsert(p)
        \/ AppendEvent(p)
        \/ StartRead(p)
        \/ Step(p)

\* one process, started on a missing or an empty log: a sequence of
\* inserts and reads, one after the other
Init == InitWith({NoFile, EmptyFile}, 0, MaxOps)

Spec == Init /\ [][Next]_vars

\* one process that is about to run write_osh_events(forward_events, path,
\* lock=True) with any sequence of events, sorted or not, on a missing, an
\* empty or a sorted log, and one more operation after it
InitWrite ==
    /\ file \in {NoFile, EmptyFile}
                \cup {[exists |-> TRUE, data |-> FramesOf(<<a, a>>)] :
                        a \in {e \in FitEvents : e.timestamp = 1}}
    /\ lockSh = {}
    /\ lockEx = {}
    /\ \E es \in SeqsUpTo(FitEvents, MaxWriteLen) :
          proc = [p \in Procs |->
                    IF p = "p1"
                    THEN [IdleProc(MaxOps - 1) EXCEPT
                            !.pc = "w_open", !.kind = "write",
                            !.status = "running", !.wq = es, !.pre = file.data]
                    ELSE IdleProc(MaxOps)]
    /\ committed = {file.data}
    /\ stored = BagOfSeq(ReadOsh(file.data).events)
    /\ merge = MergeIdle
    /\ base = BaseIdle
    /\ app = AppIdle

SpecWrite == InitWrite /\ [][Next]_vars

\* one process: inserts of events of every size, and reads
NextOversize == Next \/ \E p \in Procs : StartInsertOversized(p)

SpecOversize == Init /\ [][NextOversize]_vars

\* one process after the other, each may be killed inside its operation
NextKill == Next \/ \E p \in Procs : Kill(p)

SpecKill == Init /\ [][NextKill]_vars

\* two processes, each one invocation of the program (one insert or one
\* read), that run at the same time on a missing, an empty or a sorted log
InitConc ==
    InitWith({NoFile, EmptyFile} \cup {[exists |-> TRUE, data |-> d] : d \in SortedLogs},
             MaxOps - 1, MaxOps - 1)

SpecConc == InitConc /\ [][Next]_vars

\* the steps a process takes by itself once its operation was called: an
\* insert runs to its end, flock returns when the lock can be granted. The
\* steps of the generator of read_osh_events are taken when its consumer
\* asks for the next event, which it may never do.
Runs(p) ==
    \/ InsCheck(p)
    \/ WOpen(p)
    \/ WLock(p)
    \/ WWrite(p)
    \/ WClose(p)
    \/ ILock(p)
    \/ IScan(p)
    \/ IResize(p)
    \/ IMove(p)
    \/ IWrite(p)
    \/ RLock(p)

\* two concurrent invocations, inserts and locked reads, on a log of one
\* frame, each process scheduled as long as it can run
InitStall ==
    InitWith({[exists |-> TRUE, data |-> FramesOf(<<Event(1, <<>>)>>)]},
             MaxOps - 1, MaxOps - 1)

NextStall ==
    \E p \in Procs :
        \/ StartInsert(p)
        \/ InsCheck(p)
        \/ ILock(p)
        \/ IScan(p)
        \/ IResize(p)
        \/ IMove(p)
        \/ IWrite(p)
        \/ StartRead(p)
        \/ RLock(p)
        \/ RStep(p)
        \/ RClose(p)

SpecStall == InitStall /\ [][NextStall]_vars /\ \A p \in Procs : WF_vars(Runs(p))

\* archived.osh while it is rebuilt: the file holds an old cache, one
\* process is about to run write_osh_events(forward_events, cached_source,
\* lock=True) with the new cache, at least one event, oldest first, and the
\* other process reads the file once, as a source of read_events_from_paths
\* with lock=True
InitRebuild ==
    /\ file \in {[exists |-> TRUE, data |-> d] : d \in SortedLogs}
    /\ lockSh = {}
    /\ lockEx = {}
    /\ \E es \in SeqsUpTo(FitEvents, MaxWriteLen) :
          /\ es # <<>>
          /\ \A i \in 1..(Len(es) - 1) : es[i].timestamp <= es[i + 1].timestamp
          /\ proc = [p \in Procs |->
                       IF p = "p1"
                       THEN [IdleProc(MaxOps) EXCEPT
                               !.pc = "w_open", !.kind = "write",
                               !.status = "running", !.wq = es, !.pre = file.data]
                       ELSE IdleProc(MaxOps - 1)]
    /\ committed = {file.data}
    /\ stored = BagOfSeq(ReadOsh(file.data).events)
    /\ merge = MergeIdle
    /\ base = BaseIdle
    /\ app = AppIdle

NextRebuild ==
    \E p \in Procs :
        \/ WOpen(p)
        \/ WLock(p)
        \/ WWrite(p)
        \/ WClose(p)
        \/ StartRead(p)
        \/ RLock(p)
        \/ RStep(p)
        \/ RClose(p)

SpecRebuild == InitRebuild /\ [][NextRebuild]_vars

\* the merge reader on its own: three sources, each newest first
NewestFirst(es) ==
    \A i \in 1..(Len(es) - 1) : es[i].timestamp >= es[i + 1].timestamp

MergeEvents == {Event(ts, <<>>) : ts \in Timestamps}

NewestFirstSources == {es \in SeqsUpTo(MergeEvents, MaxSourceLen) : NewestFirst(es)}

InitMerge ==
    /\ file = NoFile
    /\ lockSh = {}
    /\ lockEx = {}
    /\ proc = [p \in Procs |-> IdleProc(MaxOps)]
    /\ committed = {<<>>}
    /\ stored = EmptyBag
    /\ \E sources \in [SourceIds -> NewestFirstSources] :
          merge = MergeStart(sources)
    /\ base = BaseIdle
    /\ app = AppIdle

\* heapq.merge is started: the first value of every source is read
MergePrimeStep ==
    /\ merge.phase = "start"
    /\ merge' = MergePrime(merge)
    /\ UNCHANGED <<procVars, base, app>>

\* the generator yields the top of the heap, or ends
MergeYieldStep ==
    /\ merge.phase = "yield"
    /\ merge' = MergeYield(merge)
    /\ UNCHANGED <<procVars, base, app>>

\* the consumer asks for the next event
MergePullStep ==
    /\ merge.phase = "pull"
    /\ merge' = MergePull(merge)
    /\ UNCHANGED <<procVars, base, app>>

NextMerge == MergePrimeStep \/ MergeYieldStep \/ MergePullStep

SpecMerge == InitMerge /\ [][NextMerge]_vars

\* the base directory: archive sources of the three formats, a local log,
\* searches, and a clock that stamps the files
OshSources ==
    {[present |-> TRUE, kind |-> "osh", content |-> FramesOf(Reverse(es)), mtime |-> 0] :
        es \in NewestFirstSources \ {<<>>}}

LegacyEntries ==
    {[session |-> TRUE, event |-> e] : e \in MergeEvents}
        \cup {[session |-> FALSE, event |-> Event(1, <<>>)]}

LegacySources ==
    {[present |-> TRUE, kind |-> "osh_legacy", content |-> es, mtime |-> 0] :
        es \in SeqsUpTo(LegacyEntries, MaxSourceLen)}

ZshSources ==
    {[present |-> TRUE, kind |-> "zsh_history", content |-> es, mtime |-> 0] :
        es \in SeqsUpTo(MergeEvents, MaxSourceLen)}

\* the first archive source is any source, the second one a source of at
\* most one record
ArchiveChoices(i) ==
    LET all == {NoSource} \cup OshSources \cup LegacySources \cup ZshSources
    IN IF i = 1 THEN all
       ELSE {src \in all : Len(ReadEventsFromPath(src).events) <= 1
                             /\ Len(src.content) <= 3}

InitBase ==
    /\ file = NoFile
    /\ lockSh = {}
    /\ lockEx = {}
    /\ proc = [p \in Procs |-> IdleProc(MaxOps)]
    /\ committed = {<<>>}
    /\ stored = EmptyBag
    /\ merge = MergeIdle
    /\ app = AppIdle
    /\ \E a1 \in ArchiveChoices(1), a2 \in ArchiveChoices(2),
          local \in {NoFile, [exists |-> TRUE, data |-> FramesOf(<<Event(2, <<>>)>>)]} :
          base = [BaseIdle EXCEPT !.arch = [i \in ArchiveSlots |-> IF i = 1 THEN a1 ELSE a2],
                                  !.local = local]

\* app_search with mode=all, or app_list: read_events_from_base and the
\* loop that emits its events
Search ==
    /\ \E o \in Orderings({i \in ArchiveSlots : base.arch[i].present}) :
        LET refreshed == RefreshCache(base, o)
            srcs == BaseSources(base, refreshed.cache)
        IN \E o2 \in Orderings(BaseSourceNames(base, refreshed.cache)) :
            LET events == ReadEventsFromPaths(srcs, o2)
            IN base' = [base EXCEPT
                 !.cache = refreshed.cache,
                 !.unlinked = refreshed.unlinked,
                 !.builds = IF refreshed.rebuilt
                            THEN @ \cup {refreshed.cache.data} ELSE @,
                 !.last = "search",
                 !.result = IF refreshed.failed \/ ~events.ok
                            THEN [status |-> "error", emitted |-> <<>>]
                            ELSE Emit(events.events)]
    /\ UNCHANGED <<procVars, merge, app>>

\* later, an archive source is written again by its owner
TouchSource ==
    /\ base.clock < MaxClock
    /\ \E i \in ArchiveSlots :
          /\ base.arch[i].present
          /\ base' = [base EXCEPT !.arch[i].mtime = base.clock + 1,
                                  !.clock = base.clock + 1,
                                  !.last = "touch"]
    /\ UNCHANGED <<procVars, merge, app>>

NextBase == Search \/ TouchSource

SpecBase == InitBase /\ [][NextBase]_vars

\* the archive directory while its owner changes it: .osh sources whose
\* events differ in their command, added, replaced, removed and touched
\* between searches
ArchiveEvents == {Event(ts, cmd) : ts \in 1..MaxArchiveTs, cmd \in Commands}

ArchiveSources ==
    {[present |-> TRUE, kind |-> "osh", content |-> FramesOf(Reverse(es)), mtime |-> 0] :
        es \in {x \in SeqsUpTo(ArchiveEvents, MaxSourceLen) : x # <<>> /\ NewestFirst(x)}}

ArchiveSourcesOfOne == {src \in ArchiveSources : Len(ReadOsh(src.content).events) = 1}

\* the first archive source holds up to MaxSourceLen events, the second one
ArchiveSourcesOf(i) == IF i = 1 THEN ArchiveSources ELSE ArchiveSourcesOfOne

InitArchive ==
    /\ file = NoFile
    /\ lockSh = {}
    /\ lockEx = {}
    /\ proc = [p \in Procs |-> IdleProc(MaxOps)]
    /\ committed = {<<>>}
    /\ stored = EmptyBag
    /\ merge = MergeIdle
    /\ app = AppIdle
    /\ \E a1 \in ArchiveSourcesOf(1) \cup {NoSource}, a2 \in ArchiveSourcesOf(2) \cup {NoSource},
          local \in {NoFile, [exists |-> TRUE, data |-> FramesOf(<<Event(2, <<>>)>>)]} :
          base = [BaseIdle EXCEPT !.arch = [i \in ArchiveSlots |-> IF i = 1 THEN a1 ELSE a2],
                                  !.local = local]

\* a file is put into archive/; its modification time is any time up to now
\* (a copy may keep the time of the original)
AddSource ==
    /\ base.changes < MaxChanges
    /\ \E i \in ArchiveSlots, t \in 0..base.clock :
          /\ ~base.arch[i].present
          /\ \E src \in ArchiveSourcesOf(i) :
                base' = [base EXCEPT !.arch[i] = [src EXCEPT !.mtime = t],
                                     !.builds = {}, !.last = "add",
                                     !.changes = @ + 1]
    /\ UNCHANGED <<procVars, merge, app>>

\* a file of archive/ is replaced by another content
ModifySource ==
    /\ base.changes < MaxChanges
    /\ \E i \in ArchiveSlots, t \in 0..base.clock :
          /\ base.arch[i].present
          /\ \E src \in ArchiveSourcesOf(i) :
                /\ src.content # base.arch[i].content
                /\ base' = [base EXCEPT !.arch[i] = [src EXCEPT !.mtime = t],
                                        !.builds = {}, !.last = "modify",
                                        !.changes = @ + 1]
    /\ UNCHANGED <<procVars, merge, app>>

\* a file of archive/ is deleted
RemoveSource ==
    /\ base.changes < MaxChanges
    /\ \E i \in ArchiveSlots :
          /\ base.arch[i].present
          /\ base' = [base EXCEPT !.arch[i] = NoSource,
                                  !.builds = {}, !.last = "remove",
                                  !.changes = @ + 1]
    /\ UNCHANGED <<procVars, merge, app>>

NextArchive == Search \/ TouchSource \/ AddSource \/ ModifySource \/ RemoveSource

SpecArchive == InitArchive /\ [][NextArchive]_vars

\* a search is interrupted inside write_osh_events of the cache rebuild:
\* archived.osh was truncated by open("wb") and holds the frames that
\* reached the file, the first k of the new cache
SearchKilled ==
    /\ \E o \in Orderings({i \in ArchiveSlots : base.arch[i].present}) :
          LET refreshed == RefreshCache(base, o)
              forward == Reverse(ReadOsh(refreshed.cache.data).events)
          IN /\ refreshed.rebuilt
             /\ \E k \in 0..(Len(forward) - 1) :
                   base' = [base EXCEPT
                              !.cache = [refreshed.cache EXCEPT
                                           !.data = FramesOf(SubSeq(forward, 1, k))],
                              !.result = [status |-> "none", emitted |-> <<>>],
                              !.last = "killed"]
    /\ UNCHANGED <<procVars, merge, app>>

NextArchiveKill == Search \/ TouchSource \/ SearchKilled

SpecArchiveKill == InitArchive /\ [][NextArchiveKill]_vars

\* the base directory with its active logs: local.osh is a regular file or
\* a symbolic link to active/a.osh, events are appended and searched;
\* archive/ holds no source, archived.osh may be left from an archive that
\* was emptied
HomeCaches == {NoCache, [exists |-> TRUE, data |-> FramesOf(<<Event(1, <<>>)>>), mtime |-> 0]}

HomeFiles == {NoFile, [exists |-> TRUE, data |-> FramesOf(<<Event(2, <<>>)>>)]}

InitHome ==
    /\ file = NoFile
    /\ lockSh = {}
    /\ lockEx = {}
    /\ proc = [p \in Procs |-> IdleProc(MaxOps)]
    /\ committed = {<<>>}
    /\ merge = MergeIdle
    /\ app = AppIdle
    /\ \E link \in BOOLEAN, active \in HomeFiles, local \in HomeFiles,
          cache \in HomeCaches :
          /\ link => ~local.exists
          /\ base = [BaseIdle EXCEPT !.link = link, !.active = active,
                                     !.local = local, !.cache = cache]
          /\ stored = BagOfSeq(ReadOsh(active.data).events)
                        (+) BagOfSeq(ReadOsh(local.data).events)

NextHome == AppAppendEvent \/ Search

SpecHome == InitHome /\ [][NextHome]_vars

\* search on its own, given the stream of read_events_from_base, newest
\* first. The events of the filtering modes differ in folder and session
\* (events of a zsh history have neither), the events of mode=bag in
\* command and exit code.
Places == {[folder |-> None, session |-> None],
           [folder |-> Some(1), session |-> Some(1)],
           [folder |-> Some(1), session |-> Some(2)],
           [folder |-> Some(2), session |-> Some(1)]}

PlacedEvents ==
    {SearchEvent(ts, <<>>, Some(0), pl.folder, pl.session) :
        ts \in 1..MaxArchiveTs, pl \in Places}

CodedEvents ==
    {SearchEvent(ts, cmd, code, None, None) :
        ts \in 1..MaxArchiveTs, cmd \in Commands, code \in {None, Some(0), Some(1)}}

StreamsOf(S) == {es \in SeqsUpTo(S, MaxStreamLen) : NewestFirst(es)}

SearchArgs ==
    {[mode |-> "default", session |-> None, folder |-> None],
     [mode |-> "all", session |-> None, folder |-> None],
     [mode |-> "bag", session |-> None, folder |-> None]}
    \cup {[mode |-> "session", session |-> s, folder |-> None] :
            s \in {None, Some(1), Some(2)}}
    \cup {[mode |-> "folder", session |-> None, folder |-> f] :
            f \in {None, Some(1), Some(2)}}

InitSearch ==
    /\ file = NoFile
    /\ lockSh = {}
    /\ lockEx = {}
    /\ proc = [p \in Procs |-> IdleProc(MaxOps)]
    /\ committed = {<<>>}
    /\ stored = EmptyBag
    /\ merge = MergeIdle
    /\ base = BaseIdle
    /\ \E args \in SearchArgs :
          \E stream \in (IF args.mode = "bag" THEN StreamsOf(CodedEvents)
                         ELSE StreamsOf(PlacedEvents)) :
             app = [cmd |-> "search", phase |-> "start", stream |-> stream,
                    mode |-> args.mode, session |-> args.session,
                    folder |-> args.folder,
                    result |-> [status |-> "none", emitted |-> <<>>]]

NextSearch == AppSearch

SpecSearch == InitSearch /\ [][NextSearch]_vars

\* convert on its own: it is run on a file of one of the three formats,
\* whose events differ in their command, and then again on the file that
\* it wrote
ConvertPaths ==
    {[kind |-> "osh_legacy", content |-> es] :
        es \in SeqsUpTo({[session |-> TRUE, event |-> e] : e \in ArchiveEvents}
                          \cup {[session |-> FALSE, event |-> Event(1, <<>>)]},
                        MaxSourceLen)}
    \cup {[kind |-> "zsh_history", content |-> es] :
            es \in SeqsUpTo(ArchiveEvents \cup OversizedEvents, MaxSourceLen)}
    \cup {[kind |-> "osh", content |-> src.content] : src \in ArchiveSources}

InitConvert ==
    /\ file = NoFile
    /\ lockSh = {}
    /\ lockEx = {}
    /\ proc = [p \in Procs |-> IdleProc(MaxOps)]
    /\ committed = {<<>>}
    /\ stored = EmptyBag
    /\ merge = MergeIdle
    /\ base = BaseIdle
    /\ \E path \in ConvertPaths :
          app = [cmd |-> "convert", phase |-> "start", runs |-> 0,
                 status |-> "none", first |-> path, before |-> path, path |-> path,
                 name |-> PathName(path), from |-> PathName(path),
                 written |-> [exists |-> FALSE, name |-> <<>>, content |-> <<>>],
                 unlinked |-> FALSE]

NextConvert == AppConvert

SpecConvert == InitConvert /\ [][NextConvert]_vars

\* read_zsh_events on its own, given the text of the file
ZshTexts == SeqsUpTo(ZshChars, MaxTextLen)

InitZsh ==
    /\ file = NoFile
    /\ lockSh = {}
    /\ lockEx = {}
    /\ proc = [p \in Procs |-> IdleProc(MaxOps)]
    /\ committed = {<<>>}
    /\ stored = EmptyBag
    /\ merge = MergeIdle
    /\ base = BaseIdle
    /\ \E text \in ZshTexts :
          app = [cmd |-> "read_zsh", phase |-> "start", text |-> text,
                 result |-> [status |-> "none", events |-> <<>>]]

NextZsh == AppReadZsh

SpecZsh == InitZsh /\ [][NextZsh]_vars

\* read_osh_legacy_events on its own, given the JSON array
LegacyArrays == SeqsUpTo(LegacyEntries, MaxStreamLen)

InitLegacy ==
    /\ file = NoFile
    /\ lockSh = {}
    /\ lockEx = {}
    /\ proc = [p \in Procs |-> IdleProc(MaxOps)]
    /\ committed = {<<>>}
    /\ stored = EmptyBag
    /\ merge = MergeIdle
    /\ base = BaseIdle
    /\ \E data \in LegacyArrays :
          app = [cmd |-> "read_osh_legacy", phase |-> "start", data |-> data,
                 result |-> [ok |-> TRUE, events |-> <<>>]]

NextLegacy == AppReadLegacy

SpecLegacy == InitLegacy /\ [][NextLegacy]_vars

\* check on its own: two source files, in the order of their paths; an
\* .osh file holds frames or is empty or holds a payload that does not
\* decode, a .zsh_history file holds records or a line that is no record
CheckOshFiles ==
    {[kind |-> "osh", content |-> FramesOf(es)] : es \in SeqsUpTo(MergeEvents, MaxSourceLen)}
        \cup {[kind |-> "osh", content |-> <<0>> \o ToBytes(1)],
              [kind |-> "osh", content |-> <<0>> \o ToBytes(1) \o FramesOf(<<Event(1, <<>>)>>)]}

CheckZshFiles ==
    {[kind |-> "zsh_history", content |-> text] :
        text \in {<<"a", "nl">>}
                   \cup {t \in SeqsUpTo(ZshChars, 2 * MaxSourceLen) :
                           \A i \in DOMAIN t : IF i % 2 = 1 THEN t[i] \in ZshHeaders
                                                            ELSE t[i] = "nl"}}

CheckLegacyFiles ==
    {[kind |-> "osh_legacy", content |-> es] : es \in SeqsUpTo(LegacyEntries, MaxSourceLen)}

CheckFiles == CheckOshFiles \cup CheckZshFiles \cup CheckLegacyFiles

InitCheck ==
    /\ file = NoFile
    /\ lockSh = {}
    /\ lockEx = {}
    /\ proc = [p \in Procs |-> IdleProc(MaxOps)]
    /\ committed = {<<>>}
    /\ stored = EmptyBag
    /\ merge = MergeIdle
    /\ base = BaseIdle
    /\ \E a \in CheckFiles, b \in CheckFiles :
          app = [cmd |-> "check", phase |-> "start", sources |-> <<a, b>>,
                 result |-> [printed |-> <<>>, raised |-> FALSE, exit |-> 0]]

NextCheck == AppCheck

SpecCheck == InitCheck /\ [][NextCheck]_vars

\* human_duration on its own: durations in steps of 1 / DurationParts of a
\* millisecond below one second, of each unit up to MaxUnits units, and
\* below each threshold
UnitSeconds == {1, 60, 3600, 86400, 604800, 31536000}

Durations ==
    {Mixed(j, 1000 * DurationParts) : j \in 0..(1000 * DurationParts)}
        \cup {Mixed(j * u, DurationParts) :
                j \in 0..(MaxUnits * DurationParts), u \in UnitSeconds}
        \cup {Mixed(u * DurationParts - j, DurationParts) :
                j \in 0..DurationParts, u \in UnitSeconds}

InitDuration ==
    /\ file = NoFile
    /\ lockSh = {}
    /\ lockEx = {}
    /\ proc = [p \in Procs |-> IdleProc(MaxOps)]
    /\ committed = {<<>>}
    /\ stored = EmptyBag
    /\ merge = MergeIdle
    /\ base = BaseIdle
    /\ \E dt \in Durations :
          app = [cmd |-> "human_duration", phase |-> "start", dt |-> dt,
                 result |-> [value |-> 0, unit |-> "none"]]

NextDuration == AppHumanDuration

SpecDuration == InitDuration /\ [][NextDuration]_vars

\* search, list, check, convert and append-event run by three processes at
\* the same time, each up to MaxRuns commands; every command that can take
\* a step eventually takes one (a reader finishes its iteration)
InitLocks ==
    /\ file = NoFile
    /\ lockSh = {}
    /\ lockEx = {}
    /\ proc = [p \in Procs |-> IdleProc(MaxOps)]
    /\ committed = {<<>>}
    /\ stored = EmptyBag
    /\ merge = MergeIdle
    /\ base = BaseIdle
    /\ app = [cmd |-> "locks", phase |-> "run",
              sh |-> [f \in LockFiles |-> {}], ex |-> [f \in LockFiles |-> {}],
              run |-> [p \in Runners |-> RunnerIdle(MaxRuns)]]

NextLocks ==
    \E p \in Runners :
        \/ StartAppend(p)
        \/ StartConvert(p)
        \/ StartSearch(p)
        \/ StartCheck(p)
        \/ LockEx(p)
        \/ WriteClose(p)
        \/ LockSh(p)
        \/ ReadEnd(p)

SpecLocks ==
    InitLocks /\ [][NextLocks]_vars /\ \A p \in Runners : WF_vars(RunnerStep(p))

\* convert of an active log and append-event at the same time: two
\* processes, one operation each, on a log of one frame
InitRace == InitWith({[exists |-> TRUE, data |-> FramesOf(<<Event(2, <<>>)>>)]},
                     MaxOps - 1, MaxOps - 1)

NextRace ==
    \E p \in Procs :
        \/ ConvertStart(p)
        \/ ConvertSort(p)
        \/ StartInsert(p)
        \/ InsCheck(p)
        \/ ILock(p)
        \/ IScan(p)
        \/ IResize(p)
        \/ IMove(p)
        \/ IWrite(p)
        \/ RLock(p)
        \/ RStep(p)
        \/ WOpen(p)
        \/ WLock(p)
        \/ WWrite(p)
        \/ WClose(p)

SpecRace == InitRace /\ [][NextRace]_vars

\* read_osh_events on its own, on any bytes: the digits of size words, the
\* first bytes of payloads that decode and do not decode, command bytes
ByteValues == 0..(ByteBase - 1) \cup Chars

InitBytes ==
    /\ file = NoFile
    /\ lockSh = {}
    /\ lockEx = {}
    /\ proc = [p \in Procs |-> IdleProc(MaxOps)]
    /\ committed = {<<>>}
    /\ stored = EmptyBag
    /\ merge = MergeIdle
    /\ base = BaseIdle
    /\ \E data \in SeqsUpTo(ByteValues, MaxFileLen) :
          app = [cmd |-> "read_osh", phase |-> "start", data |-> data,
                 result |-> [ok |-> TRUE, events |-> <<>>]]

NextBytes == AppReadOsh

SpecBytes == InitBytes /\ [][NextBytes]_vars

\* the entries of a stream of events on their own: the commands are drawn
\* from the texts over EntryChars
EntryCommands == SeqsUpTo(EntryChars, MaxEntryCmdLen)

InitEntries ==
    /\ file = NoFile
    /\ lockSh = {}
    /\ lockEx = {}
    /\ proc = [p \in Procs |-> IdleProc(MaxOps)]
    /\ committed = {<<>>}
    /\ stored = EmptyBag
    /\ merge = MergeIdle
    /\ base = BaseIdle
    /\ \E commands \in SeqsUpTo(EntryCommands, MaxEntries) :
          app = [cmd |-> "entries", phase |-> "start", commands |-> commands,
                 out |-> <<>>]

NextEntries == AppPrintEntries

SpecEntries == InitEntries /\ [][NextEntries]_vars

\* ------------------------------------------------------------- properties
\* the events of a log, oldest first
Forward(data) == Reverse(ReadOsh(data).events)

\* the log is a sequence of whole frames and nothing else
LogValid(data) == ReadOsh(data).ok /\ FramesOf(Forward(data)) = data

NonDecreasing(es) ==
    \A i \in 1..(Len(es) - 1) : es[i].timestamp <= es[i + 1].timestamp

NonIncreasing(es) ==
    \A i \in 1..(Len(es) - 1) : es[i].timestamp >= es[i + 1].timestamp

InsertReturned(p) ==
    proc[p].pc = "idle" /\ proc[p].kind = "insert" /\ proc[p].status = "returned"

\* C1: starting from a missing or an empty log, after any sequence of
\* inserts of events whose timestamps arrive in any order, the file is a
\* sequence of whole frames in non-decreasing timestamp order.
C1_InsertKeepsOrder ==
    lockEx = {} => LogValid(file.data) /\ NonDecreasing(Forward(file.data))

\* C1 witness: three frames are stored and the last insert, of a timestamp
\* older than the newest frame and newer than the oldest, has returned.
C1_Witness ==
    /\ InsertReturned("p1")
    /\ Len(Forward(file.data)) = 3
    /\ proc["p1"].ev.timestamp < Forward(file.data)[3].timestamp
    /\ proc["p1"].ev.timestamp > Forward(file.data)[1].timestamp

\* C2: an insert into a valid sorted log of n frames returns with a valid
\* log of n + 1 frames: the file grew by the payload size + 2, the new
\* frame sits right after the last frame whose timestamp is <= the new
\* one (at offset 0 if there is none), and the bytes before and after it
\* are the bytes of the old file.
C2_InsertFrameEffect ==
    \A p \in Procs :
        InsertReturned(p) /\ LogValid(proc[p].pre) /\ NonDecreasing(Forward(proc[p].pre)) =>
            LET old == proc[p].pre
                F == Forward(old)
                e == proc[p].ev
                size == Len(Encode(e))
                j == Cardinality({i \in 1..Len(F) : F[i].timestamp <= e.timestamp})
                k == Len(FramesOf(SubSeq(F, 1, j)))
            IN /\ LogValid(file.data)
               /\ Len(Forward(file.data)) = Len(F) + 1
               /\ Len(file.data) = Len(old) + size + 2
               /\ SubSeq(file.data, 1, k) = SubSeq(old, 1, k)
               /\ SubSeq(file.data, k + 1, k + size) = Encode(e)
               /\ FromBytes(SubSeq(file.data, k + size + 1, k + size + 2)) = size
               /\ SubSeq(file.data, k + size + 3, Len(file.data))
                    = SubSeq(old, k + 1, Len(old))

\* C2 witness: an insert between two frames has returned, and the frame
\* before the new one has the timestamp of the new event.
C2_Witness ==
    /\ InsertReturned("p1")
    /\ proc["p1"].insert_at > 0
    /\ proc["p1"].insert_at < Len(proc["p1"].pre)
    /\ \E i \in 1..Len(Forward(proc["p1"].pre)) :
          Forward(proc["p1"].pre)[i].timestamp = proc["p1"].ev.timestamp

AllIdle == \A p \in Procs : proc[p].pc = "idle"

\* C3: once all concurrent append-event invocations have finished, the log
\* holds every inserted event exactly once and every event it held before.
C3_ConcurrentInsertsKeepAll ==
    AllIdle =>
        /\ ReadOsh(file.data).ok
        /\ BagOfSeq(ReadOsh(file.data).events) = stored

ReadEnded(p) == proc[p].pc = "idle" /\ proc[p].kind = "read"

\* C4: on a log that held a frame from the start, a locked reader that
\* runs while another process inserts returns the events of the file as it
\* was before the insert or as it is after it: what it mapped is one of
\* the contents the file had between operations, a sorted sequence of
\* whole frames, and it yields exactly the events of that content.
C4_LockedReadSeesWholeInsert ==
    \A p \in Procs :
        ReadEnded(p) /\ <<>> \notin committed =>
            /\ proc[p].status = "returned"
            /\ proc[p].pre \in committed
            /\ LogValid(proc[p].pre)
            /\ proc[p].out = ReadOsh(proc[p].pre).events
            /\ Cardinality(committed) <= 2

\* C4 witness: a reader and an inserter ran on a log of at least one frame;
\* the reader had to wait for the insert and returned the events of the
\* file after it.
C4_Witness ==
    \E p, q \in Procs :
        /\ ReadEnded(p) /\ proc[p].status = "returned"
        /\ InsertReturned(q)
        /\ <<>> \notin committed
        /\ proc[q].pre # file.data
        /\ proc[p].pre = file.data
        /\ Len(proc[p].out) = Len(ReadOsh(proc[q].pre).events) + 1

\* C5: after an insert was interrupted (its process killed), the file is
\* as it was before the insert, or it holds the new frame fully inserted.
C5_InterruptedInsertIsAtomic ==
    \A p \in Procs :
        proc[p].pc = "idle" /\ proc[p].kind = "insert" /\ proc[p].status = "killed" =>
            \/ file.data = proc[p].pre
            \/ /\ LogValid(file.data)
               /\ BagOfSeq(Forward(file.data))
                    = BagOfSeq(Forward(proc[p].pre)) (+) SetToBag({proc[p].ev})

\* C6: an insert of an event whose payload is larger than 65,535 bytes
\* returns normally and leaves the bytes of the log unchanged.
C6_OversizedInsertIsSilent ==
    \A p \in Procs :
        proc[p].pc = "idle" /\ proc[p].kind = "insert"
            /\ Len(Encode(proc[p].ev)) >= SizeCheckBound =>
                /\ proc[p].status = "returned"
                /\ file.data = proc[p].pre

\* C9: write_osh_events of a non-empty sequence E of events that fit a
\* frame, followed by read_osh_events, yields exactly reverse(E), whatever
\* the file held before.
C9_WriteThenReadReverses ==
    \A p \in Procs :
        /\ ReadEnded(p)
        /\ proc[p].prev.kind = "write"
        /\ proc[p].prev.status = "returned"
        /\ proc[p].prev.es # <<>>
        => /\ proc[p].status = "returned"
           /\ proc[p].out = Reverse(proc[p].prev.es)

\* C9 witness: two events were written over a log that held frames, the
\* newer one first, and the read after it has returned.
C9_Witness ==
    /\ ReadEnded("p1") /\ proc["p1"].status = "returned"
    /\ proc["p1"].prev.kind = "write"
    /\ Len(proc["p1"].prev.es) = 2
    /\ proc["p1"].prev.es[1].timestamp > proc["p1"].prev.es[2].timestamp
    /\ \E d \in committed : Len(d) > Len(file.data)

\* C10: read_osh_events on an existing empty file yields no event and
\* raises no error.
C10_ReadOfEmptyFileYieldsNothing ==
    \A p \in Procs :
        ReadEnded(p) /\ file.exists /\ proc[p].pre = <<>> =>
            proc[p].status = "returned" /\ proc[p].out = <<>>

RECURSIVE BagOfSources(_, _)
BagOfSources(sources, i) ==
    IF i > Len(sources) THEN EmptyBag
    ELSE BagOfSeq(sources[i]) (+) BagOfSources(sources, i + 1)

TimestampsOf(es) == [i \in 1..Len(es) |-> es[i].timestamp]

StampsToEvents(ts) == [i \in 1..Len(ts) |-> Event(ts[i], <<>>)]

\* C7: the merge of sources that are each newest first is non-increasing
\* in timestamp and its multiset of events is the multiset union of the
\* sources; [5,3,1], [4,2], [6] give [6,5,4,3,2,1].
C7_MergeIsSortedUnion ==
    /\ merge.phase = "done" /\ (\A i \in DOMAIN merge.input : NewestFirst(merge.input[i])) =>
          /\ NonIncreasing(merge.out)
          /\ BagOfSeq(merge.out) = BagOfSources(merge.input, 1)
    /\ TimestampsOf(MergeAll(<<StampsToEvents(<<5, 3, 1>>),
                                StampsToEvents(<<4, 2>>),
                                StampsToEvents(<<6>>)>>))
         = <<6, 5, 4, 3, 2, 1>>

\* C7 witness: three non-empty sources that interleave were merged.
C7_Witness ==
    /\ merge.phase = "done"
    /\ \A i \in DOMAIN merge.input : Len(merge.input[i]) = 2
    /\ merge.input[1][1].timestamp > merge.input[2][1].timestamp
    /\ merge.input[2][1].timestamp > merge.input[1][2].timestamp
    /\ merge.input[3][1].timestamp >= merge.input[1][1].timestamp

\* C8: every .osh file the core writes is in non-decreasing timestamp
\* order, archived.osh after a cache rebuild in particular, the stream of
\* read_events_from_base is non-increasing, and the ordering assertion of
\* search and list never fails.
C8_CacheSortedAssertionHolds ==
    /\ base.cache.exists => NonDecreasing(Forward(base.cache.data))
    /\ base.result.status # "assert"
    /\ NonIncreasing(base.result.emitted)

\* the events of the archive sources, as their readers yield them
RECURSIVE ArchiveBagOf(_, _)
ArchiveBagOf(b, slots) ==
    IF slots = {} THEN EmptyBag
    ELSE LET i == CHOOSE x \in slots : TRUE
         IN (IF b.arch[i].present
             THEN BagOfSeq(ReadEventsFromPath(b.arch[i]).events) ELSE EmptyBag)
            (+) ArchiveBagOf(b, slots \ {i})

ArchiveBag(b) == ArchiveBagOf(b, ArchiveSlots)

LocalBag(b) ==
    IF b.local.exists THEN BagOfSeq(ReadOsh(b.local.data).events) ELSE EmptyBag

CacheBag(b) ==
    IF b.cache.exists THEN BagOfSeq(ReadOsh(b.cache.data).events) ELSE EmptyBag

\* C11: a search that runs to its end after an earlier search was killed,
\* at any point and inside the cache rebuild in particular, emits every
\* event of the archive sources and of the active logs.
C11_SearchAfterKillEmitsAll ==
    base.last = "search" /\ base.result.status = "ok" =>
        BagOfSeq(base.result.emitted) = ArchiveBag(base) (+) LocalBag(base)

\* C12: after any changes to the archive directory and a run of
\* read_events_from_base, archived.osh holds exactly the events of the
\* archive sources that are present.
C12_CacheHoldsArchiveEvents ==
    base.last = "search" /\ base.result.status \in {"ok", "assert"} =>
        CacheBag(base) = ArchiveBag(base)

\* C13: a reader of archived.osh that takes the shared lock while another
\* process rebuilds the file yields the events of the complete old cache or
\* of the complete new cache, and does not fail.
C13_ReaderSeesOldOrNewCache ==
    \A p \in Procs :
        ReadEnded(p) =>
            /\ proc[p].status = "returned"
            /\ \E d \in committed : proc[p].out = ReadOsh(d).events

\* the process is inside fcntl.flock
WaitsForLock(p) == proc[p].pc \in {"i_lock", "w_lock", "r_lock"}

\* C14: an insert or a locked read that waits for the file lock stops
\* waiting after a bounded time (it gets the lock or gives up), also when
\* the process that holds the conflicting lock never releases it.
C14_LockWaitIsBounded ==
    \A p \in Procs : WaitsForLock(p) ~> ~WaitsForLock(p)

\* C17: the rebuilds of the archive cache over unchanged archive sources
\* all give the same bytes, whatever the order in which a process iterates
\* the set of source paths.
C17_RebuildsAreByteIdentical == Cardinality(base.builds) <= 1

SearchDone == app.cmd = "search" /\ app.phase = "done"

\* C15: every bagged record has count = the size of its bag, success = the
\* events with exit code 0, failure = the events with an exit code that is
\* present and not 0, unknown = the events without exit code, each ratio
\* that number / count, and the maximum timestamp of the bag; exit codes
\* [0, 0, 1, null] at timestamps [10, 20, 30, 40] give count 4, ratios
\* 0.5 / 0.25 / 0.25 and timestamp 40.
C15_FromBagCountsAndRatios ==
    /\ SearchDone /\ app.mode = "bag" =>
          \A r \in {app.result.emitted[i] : i \in DOMAIN app.result.emitted} :
              LET bag == {i \in DOMAIN app.stream : app.stream[i].command = r.command}
                  Count(S) == Cardinality(S)
                  success == Count({i \in bag : app.stream[i].exit_code = Some(0)})
                  failure == Count({i \in bag : app.stream[i].exit_code \notin {None, Some(0)}})
                  unknown == Count({i \in bag : app.stream[i].exit_code = None})
              IN /\ r.count = Count(bag)
                 /\ r.success_ratio[1] * r.count = success * r.success_ratio[2]
                 /\ r.failure_ratio[1] * r.count = failure * r.failure_ratio[2]
                 /\ r.unknown_ratio[1] * r.count = unknown * r.unknown_ratio[2]
                 /\ \A i \in bag : app.stream[i].timestamp <= r.timestamp
                 /\ \E i \in bag : app.stream[i].timestamp = r.timestamp
    /\ LET r == FromBag(<<>>, <<SearchEvent(10, <<>>, Some(0), None, None),
                                SearchEvent(20, <<>>, Some(0), None, None),
                                SearchEvent(30, <<>>, Some(1), None, None),
                                SearchEvent(40, <<>>, None, None, None)>>)
       IN /\ r.count = 4
          /\ r.timestamp = 40
          /\ r.success_ratio[1] * 2 = r.success_ratio[2]
          /\ r.failure_ratio[1] * 4 = r.failure_ratio[2]
          /\ r.unknown_ratio[1] * 4 = r.unknown_ratio[2]

\* the subsequence of the events that satisfy Test
Subsequence(events, Test(_)) == SelectSeq(events, Test)

\* C16: search with mode=session and a session value emits exactly the
\* events of the newest-first stream whose session is that value, with
\* mode=folder and a folder value those whose folder is that value, in the
\* order of the stream; with mode=all it emits the stream unchanged.
C16_SearchFiltersBySessionOrFolder ==
    SearchDone /\ NewestFirst(app.stream) =>
        /\ app.mode = "session" /\ app.session # None =>
              /\ app.result.status = "ok"
              /\ app.result.emitted
                    = LET Test(e) == e.session = app.session
                      IN Subsequence(app.stream, Test)
        /\ app.mode = "folder" /\ app.folder # None =>
              /\ app.result.status = "ok"
              /\ app.result.emitted
                    = LET Test(e) == e.folder = app.folder
                      IN Subsequence(app.stream, Test)
        /\ app.mode = "all" =>
              /\ app.result.status = "ok"
              /\ app.result.emitted = app.stream

\* C16 witness: a search with mode=session has ended; of three events of
\* the stream it emitted the first and the last, and the one it dropped has
\* the folder of the others and another session.
C16_Witness ==
    /\ SearchDone
    /\ app.mode = "session"
    /\ app.session # None
    /\ Len(app.stream) = 3
    /\ app.result.emitted = <<app.stream[1], app.stream[3]>>
    /\ app.stream[2].folder = app.stream[1].folder
    /\ app.stream[2].session \notin {None, app.session}

\* C18: convert of a legacy file and then convert of the .osh file it
\* wrote: the second run leaves the bytes of the .osh file unchanged.
C18_SecondConvertKeepsBytes ==
    /\ app.cmd = "convert"
    /\ app.runs = 2
    /\ app.first.kind = "osh_legacy"
    /\ app.status = "ok"
    => app.path.content = app.before.content

\* C19: every event recorded by append-event is in the stream of a later
\* read_events_from_base exactly once, whether local.osh is a regular file
\* or a symbolic link to a log under active/.
C19_AppendedEventsEmittedOnce ==
    base.last = "search" /\ base.result.status = "ok" =>
        BagOfSeq(base.result.emitted) = stored

\* C19 witness: local.osh is a symbolic link to active/a.osh, events were
\* appended through it, and a search has emitted MaxOps events.
C19_Witness ==
    /\ base.link
    /\ base.last = "search"
    /\ base.result.status = "ok"
    /\ ~base.local.exists
    /\ Len(ReadOsh(base.active.data).events) = MaxOps
    /\ Len(base.result.emitted) = MaxOps

\* the events read so far from source i (one frame of an .osh log each)
MergeRead(m, i) == Len(m.input[i]) - Len(m.rest[i])

\* the events of source i yielded so far
MergeEmitted(m, i) == Cardinality({k \in DOMAIN m.from : m.from[k] = i})

\* C20: at every point of the iteration the number of events read from a
\* source is at most one more than the number of its events already
\* emitted, so after k emitted events no source was read further than k + 1
\* events (frames from the tail of an .osh log).
C20_MergeReadsOneAhead ==
    \A i \in DOMAIN merge.input :
        /\ MergeRead(merge, i) <= MergeEmitted(merge, i) + 1
        /\ MergeRead(merge, i) <= Len(merge.out) + 1

\* C20 witness: the consumer holds the first event; the source it came from
\* has not been asked again, another source has one event read ahead and
\* more events that were not read.
C20_Witness ==
    /\ merge.phase = "pull"
    /\ Len(merge.out) = 1
    /\ \E i \in DOMAIN merge.input :
          /\ i # merge.cur
          /\ MergeEmitted(merge, i) = 0
          /\ MergeRead(merge, i) = 1
          /\ merge.rest[i] # <<>>
    /\ MergeRead(merge, merge.cur) = 1
    /\ merge.rest[merge.cur] # <<>>

\* the physical lines of a text: the pieces between the newlines, a last
\* line without a newline after it included
PhysicalLines(text) ==
    LET pieces == SplitLines(text)
    IN IF pieces[Len(pieces)] = <<>> THEN SubSeq(pieces, 1, Len(pieces) - 1) ELSE pieces

\* C21: read_zsh_events turns every record of the file into one event with
\* only timestamp and command, joins continuation lines, returns the events
\* newest first and stops with an error on a record-start line that does
\* not match: its result is the parse of all physical lines of the file.
C21_ZshRecordsBecomeEvents ==
    app.cmd = "read_zsh" /\ app.phase = "done" =>
        app.result = ZshParse(PhysicalLines(app.text), 1, <<>>)

\* the events of the entries of a JSON array that have a session key
SessionEntries(data) ==
    BagOfSeq([i \in 1..Len(SelectSeq(data, LAMBDA entry : entry.session))
                |-> SelectSeq(data, LAMBDA entry : entry.session)[i].event])

\* C22: read_osh_legacy_events emits one event for exactly the elements of
\* the array that have a session key, and emits them newest first for any
\* input array.
C22_LegacyEmitsNewestFirst ==
    app.cmd = "read_osh_legacy" /\ app.phase = "done" =>
        /\ BagOfSeq(app.result.events) = SessionEntries(app.data)
        /\ NonIncreasing(app.result.events)

\* the timestamps of a source file in the order of the file; the texts of
\* the .zsh_history files of SpecCheck hold one record per line
FileStamps(src) ==
    IF src.kind = "osh_legacy"
    THEN TimestampsOf(Reverse(LegacyEvents(src.content)))
    ELSE IF src.kind = "zsh_history"
    THEN [i \in 1..Len(ZshHistoryLines(src.content))
            |-> ZshTimestamp(ZshHistoryLines(src.content)[i][1])]
    ELSE TimestampsOf(Reverse(ReadOsh(src.content).events))

FileSorted(src) ==
    \A i \in 1..(Len(FileStamps(src)) - 1) : FileStamps(src)[i] <= FileStamps(src)[i + 1]

\* a source that its reader reads to the end without an exception
Readable(src) == CheckStream(src).ok

\* C23: check prints one status per source, goes on after a file that is
\* not sorted, and exits non-zero if and only if at least one source file
\* is not in non-decreasing timestamp order (sources that can be read).
C23_CheckExitsNonZeroIffUnsorted ==
    /\ app.cmd = "check" /\ app.phase = "done"
    /\ \A i \in DOMAIN app.sources : Readable(app.sources[i])
    => /\ Len(app.result.printed) = Len(app.sources)
       /\ (app.result.exit # 0) <=> (\E i \in DOMAIN app.sources : ~FileSorted(app.sources[i]))

\* C29: when a source is corrupt or cannot be parsed, check still reports
\* every source, the corrupt one included, and exits non-zero.
C29_CheckGoesOnAfterCorruptFile ==
    /\ app.cmd = "check" /\ app.phase = "done"
    /\ \E i \in DOMAIN app.sources : ~Readable(app.sources[i])
    => /\ Len(app.result.printed) = Len(app.sources)
       /\ app.result.exit # 0

\* the unit of a duration of dt seconds by the thresholds, and its size
UnitOf(dt) ==
    IF dt.whole < 1 THEN "ms"
    ELSE IF dt.whole < 60 THEN "s"
    ELSE IF dt.whole < 60 * 60 THEN "m"
    ELSE IF dt.whole < 24 * 3600 THEN "h"
    ELSE IF dt.whole < 7 * 86400 THEN "D"
    ELSE IF dt.whole < 365 * 86400 THEN "W"
    ELSE "Y"

InUnit(dt, unit) ==
    IF unit = "ms" THEN Times(dt, 1000)
    ELSE IF unit = "s" THEN dt
    ELSE IF unit = "m" THEN Over(dt, 60)
    ELSE IF unit = "h" THEN Over(dt, 3600)
    ELSE IF unit = "D" THEN Over(dt, 86400)
    ELSE IF unit = "W" THEN Over(dt, 604800)
    ELSE Over(dt, 31536000)

\* v is an integer nearest to x
Nearest(v, x) ==
    \/ v = x.whole /\ 2 * x.num <= x.den
    \/ v = x.whole + 1 /\ 2 * x.num >= x.den

Seconds(n) == Mixed(n, 1)

\* C24: human_duration picks the unit by the thresholds 1000 ms, 60 s,
\* 60 m, 24 h, 7 days, 365 days and prints the value rounded to the nearest
\* integer in that unit; 500 ms, 1.4 s, 125 s, 3600 s, 90000 s, 604800 s and
\* 31536000 s give 500ms, 1s, 2m, 1h, 1D, 1W and 1Y.
C24_HumanDurationUnitAndValue ==
    /\ app.cmd = "human_duration" /\ app.phase = "done" =>
          /\ app.result.unit = UnitOf(app.dt)
          /\ Nearest(app.result.value, InUnit(app.dt, app.result.unit))
    /\ HumanDuration(Mixed(1, 2)) = [value |-> 500, unit |-> "ms"]
    /\ HumanDuration(Mixed(14, 10)) = [value |-> 1, unit |-> "s"]
    /\ HumanDuration(Seconds(125)) = [value |-> 2, unit |-> "m"]
    /\ HumanDuration(Seconds(3600)) = [value |-> 1, unit |-> "h"]
    /\ HumanDuration(Seconds(90000)) = [value |-> 1, unit |-> "D"]
    /\ HumanDuration(Seconds(604800)) = [value |-> 1, unit |-> "W"]
    /\ HumanDuration(Seconds(31536000)) = [value |-> 1, unit |-> "Y"]

\* C24 witness: a duration of more than a week and less than a year that is
\* not a whole number of weeks was printed in weeks, rounded up.
C24_Witness ==
    /\ app.cmd = "human_duration" /\ app.phase = "done"
    /\ app.result.unit = "W"
    /\ InUnit(app.dt, "W").num # 0
    /\ app.result.value = InUnit(app.dt, "W").whole + 1

\* C25: within one .osh log the frames are strictly ordered by timestamp:
\* after any sequence of inserts no two adjacent frames have equal
\* timestamps.
C25_FramesStrictlyOrdered ==
    lockEx = {} /\ LogValid(file.data) =>
        \A i \in 1..(Len(Forward(file.data)) - 1) :
            Forward(file.data)[i].timestamp < Forward(file.data)[i + 1].timestamp

\* the index in the stream of the first event with the command of events[i]
FirstSeen(events, cmd) ==
    CHOOSE i \in DOMAIN events :
        events[i].command = cmd /\ \A j \in 1..(i - 1) : events[j].command # cmd

\* C26: search with mode=bag over a newest-first stream emits the bagged
\* records in the first-seen order of their commands, each with the
\* timestamp of its first-seen event, so their timestamps are
\* non-increasing and the ordering assertion of the emit loop holds.
C26_BagOrderIsFirstSeen ==
    SearchDone /\ app.mode = "bag" /\ NewestFirst(app.stream) =>
        LET out == app.result.emitted
        IN /\ app.result.status = "ok"
           /\ {out[i].command : i \in DOMAIN out}
                = {app.stream[i].command : i \in DOMAIN app.stream}
           /\ \A i \in DOMAIN out :
                 out[i].timestamp = app.stream[FirstSeen(app.stream, out[i].command)].timestamp
           /\ \A i, j \in DOMAIN out :
                 i < j => FirstSeen(app.stream, out[i].command)
                            < FirstSeen(app.stream, out[j].command)
           /\ NonIncreasing(out)

\* C26 witness: a command was seen first, then another one, then the first
\* again with an older timestamp; two bagged records were emitted.
C26_Witness ==
    /\ SearchDone
    /\ app.mode = "bag"
    /\ Len(app.stream) = 3
    /\ app.stream[1].command = app.stream[3].command
    /\ app.stream[1].command # app.stream[2].command
    /\ app.stream[1].timestamp > app.stream[3].timestamp
    /\ app.result.status = "ok"
    /\ Len(app.result.emitted) = 2

Holds(p) == \E f \in LockFiles : p \in app.sh[f] \/ p \in app.ex[f]

\* C27: no process waits for an exclusive lock while it holds a lock, and
\* with readers that finish their iteration every process that waits for a
\* lock obtains it: the commands cannot deadlock on the advisory locks.
C27_NoDeadlockOnLocks ==
    /\ [](\A p \in Runners : app.run[p].pc = "flock_ex" => ~Holds(p))
    /\ \A p \in Runners :
          (app.run[p].pc \in {"flock_ex", "flock_sh"})
              ~> (app.run[p].pc \notin {"flock_ex", "flock_sh"})

\* C27 witness: an append-event waits for the exclusive lock of local.osh,
\* which a search holds shared while it waits for archived.osh, which
\* another search is rebuilding.
C27_Witness ==
    /\ app.cmd = "locks"
    /\ \E a, s, w \in Runners :
          /\ app.run[a].kind = "append" /\ app.run[a].pc = "flock_ex"
          /\ app.run[s].kind = "search" /\ app.run[s].pc = "flock_sh"
          /\ s \in app.sh["local.osh"]
          /\ Head(app.run[s].todo) = "archived.osh"
          /\ app.run[w].kind = "search" /\ app.run[w].pc = "writing"
          /\ w \in app.ex["archived.osh"]

\* C28: convert of an active log while append-event inserts into it loses
\* no event: after both have finished the file holds every event that was
\* in it before and every event whose insert completed.
C28_ConvertKeepsInsertedEvents ==
    /\ AllIdle
    /\ \E p \in Procs : proc[p].kind = "convert"
    /\ \A p \in Procs : proc[p].status = "returned"
    => /\ LogValid(file.data)
       /\ stored \sqsubseteq BagOfSeq(Forward(file.data))

\* the bytes are whole frames: payloads that decode, each followed by the
\* size word of its length
RECURSIVE WholeFrames(_)
WholeFrames(data) ==
    \/ data = <<>>
    \/ /\ Len(data) > 2
       /\ LET size == FromBytes(SubSeq(data, Len(data) - 1, Len(data)))
          IN /\ size + 2 <= Len(data)
             /\ CanDecode(SubSeq(data, Len(data) - 1 - size, Len(data) - 2))
             /\ WholeFrames(SubSeq(data, 1, Len(data) - 2 - size))

\* C30: read_osh_events fails with an error, and does not end silently, on
\* a file that does not consist of whole frames.
C30_PartialFileRaises ==
    app.cmd = "read_osh" /\ app.phase = "done" /\ ~WholeFrames(app.data) =>
        ~app.result.ok

\* the line on which the record that starts on line i ends: the lines that
\* end in a backslash are continued, the last line of the file ends a record
RECURSIVE RecordEnd(_, _)
RecordEnd(lines, i) ==
    IF i < Len(lines) /\ lines[i] # <<>> /\ lines[i][Len(lines[i])] = "bs"
    THEN RecordEnd(lines, i + 1)
    ELSE i

\* the number of records of the lines from line i on, and whether every
\* line that starts a record matches the pattern
RECURSIVE ZshRecords(_, _)
ZshRecords(lines, i) ==
    IF i > Len(lines) THEN [ok |-> TRUE, count |-> 0]
    ELSE LET rest == ZshRecords(lines, RecordEnd(lines, i) + 1)
         IN [ok |-> ZshMatches(lines[i]) /\ rest.ok, count |-> rest.count + 1]

\* C31: read_zsh_events yields one event for every record of the file and
\* loses none, the last record of a file without a final newline and a
\* final record that ends in a continuation backslash included.
C31_ZshLosesNoRecord ==
    /\ app.cmd = "read_zsh" /\ app.phase = "done"
    /\ ZshRecords(PhysicalLines(app.text), 1).ok
    => /\ app.result.status = "ok"
       /\ Len(app.result.events) = ZshRecords(PhysicalLines(app.text), 1).count

\* C32: for every non-negative duration the number human_duration prints
\* is below the size of the next larger unit: never 1000ms, 60s, 60m, 24h
\* or 7D, and weeks only with W < 52.
C32_HumanDurationBelowNextUnit ==
    app.cmd = "human_duration" /\ app.phase = "done" =>
        /\ app.result.unit = "ms" => app.result.value < 1000
        /\ app.result.unit = "s" => app.result.value < 60
        /\ app.result.unit = "m" => app.result.value < 60
        /\ app.result.unit = "h" => app.result.value < 24
        /\ app.result.unit = "D" => app.result.value < 7
        /\ app.result.unit = "W" => app.result.value < 52

\* the pieces of a text between the occurrences of a separator
RECURSIVE SplitOn(_, _)
SplitOn(text, sep) ==
    IF \A i \in DOMAIN text : text[i] # sep THEN <<text>>
    ELSE LET k == CHOOSE i \in DOMAIN text :
                      text[i] = sep /\ \A j \in 1..(i - 1) : text[j] # sep
         IN <<SubSeq(text, 1, k - 1)>> \o SplitOn(SubSeq(text, k + 1, Len(text)), sep)

\* the NUL-terminated records of an output
EntryRecords(out) ==
    LET pieces == SplitOn(out, "nul") IN SubSeq(pieces, 1, Len(pieces) - 1)

\* C33: for every stream of events, commands with newlines, 0x1F or NUL
\* included, search prints one NUL-terminated record per event; every
\* record splits on 0x1F into exactly four fields, the first of which is
\* the base64 text of the event's command and the fourth of which holds no
\* newline.
C33_OneFourFieldRecordPerEvent ==
    app.cmd = "entries" /\ app.phase = "done" =>
        LET records == EntryRecords(app.out)
        IN /\ Len(records) = Len(app.commands)
           /\ \A i \in DOMAIN records :
                 LET fields == SplitOn(records[i], "us")
                 IN /\ Len(fields) = 4
                    /\ fields[1] = B64Encode(app.commands[i])
                    /\ \A j \in DOMAIN fields[4] : fields[4][j] # "nl"

\* C34: a convert whose reader yields its events writes <stem>.osh, which
\* holds exactly the events the reader yielded in non-decreasing timestamp
\* order, and the original is deleted if and only if its name differs from
\* the new name.
C34_ConvertWritesReaderEvents ==
    /\ app.cmd = "convert" /\ app.runs >= 1
    /\ ReadEventsFromPath(app.before).ok
    => LET written == ReadOsh(app.written.content)
           forward == Reverse(written.events)
       IN /\ app.written.exists
          /\ app.written.name = <<Head(app.from), "osh">>
          /\ written.ok
          /\ BagOfSeq(written.events) = BagOfSeq(ReadEventsFromPath(app.before).events)
          /\ \A i \in 1..(Len(forward) - 1) :
                forward[i].timestamp <= forward[i + 1].timestamp
          /\ app.unlinked <=> app.from # app.written.name

\* the events of the active logs of a base directory, the log under
\* active/ and the local log when it is a file of its own
ActiveBag(b) ==
    (IF b.active.exists THEN BagOfSeq(ReadOsh(b.active.data).events) ELSE EmptyBag)
        (+) LocalBag(b)

\* C35: a read_events_from_base over an archive without source files
\* leaves no archived.osh behind, yields exactly the events of the active
\* logs, and changes no active log.
C35_EmptyArchiveDropsCache ==
    [][(\A i \in ArchiveSlots : ~base.arch[i].present) /\ base'.last = "search" =>
           /\ ~base'.cache.exists
           /\ base'.result.status = "ok"
           /\ BagOfSeq(base'.result.emitted) = ActiveBag(base)
           /\ base'.local = base.local
           /\ base'.active = base.active
           /\ base'.link = base.link]_vars

\* C35 witness: archive/ was empty, a search deleted an existing
\* archived.osh and emitted the events of local.osh and of active/a.osh.
C35_Witness ==
    /\ base.last = "search"
    /\ base.unlinked
    /\ ~base.cache.exists
    /\ \A i \in ArchiveSlots : ~base.arch[i].present
    /\ base.local.exists /\ base.active.exists
    /\ base.result.status = "ok"
    /\ Len(base.result.emitted) >= 2

RECURSIVE SumOfCounts(_)
SumOfCounts(records) ==
    IF records = <<>> THEN 0 ELSE Head(records).count + SumOfCounts(Tail(records))

\* C36: bagged_events yields one record per distinct command of its input,
\* the counts of the records sum to the number of input events, and in
\* every record the three ratios are non-negative and sum to 1, that is
\* success + failure + unknown = count.
C36_BagsPartitionTheEvents ==
    SearchDone /\ app.mode = "bag" /\ NewestFirst(app.stream) =>
        LET out == app.result.emitted
        IN /\ app.result.status = "ok"
           /\ \A i, j \in DOMAIN out : i # j => out[i].command # out[j].command
           /\ {out[i].command : i \in DOMAIN out}
                = {app.stream[i].command : i \in DOMAIN app.stream}
           /\ SumOfCounts(out) = Len(app.stream)
           /\ \A i \in DOMAIN out :
                 LET r == out[i]
                     s == r.success_ratio
                     f == r.failure_ratio
                     u == r.unknown_ratio
                 IN /\ r.count >= 1
                    /\ s[2] > 0 /\ f[2] > 0 /\ u[2] > 0
                    /\ s[1] >= 0 /\ f[1] >= 0 /\ u[1] >= 0
                    /\ s[1] * f[2] * u[2] + f[1] * s[2] * u[2] + u[1] * s[2] * f[2]
                         = s[2] * f[2] * u[2]

\* C36 witness: three events of two commands, with the exit codes 0, 1 and
\* none, were bagged into a record of two events and a record of one.
C36_Witness ==
    /\ SearchDone
    /\ app.mode = "bag"
    /\ Len(app.stream) = 3
    /\ {app.stream[i].exit_code : i \in DOMAIN app.stream} = {None, Some(0), Some(1)}
    /\ app.result.status = "ok"
    /\ Len(app.result.emitted) = 2
    /\ {app.result.emitted[i].count : i \in DOMAIN app.result.emitted} = {1, 2}

====
